---- MODULE Spec2Model ----
(***************************************************************************)
(* Interruptible streaming generation of ai-report-writer.                 *)
(*                                                                         *)
(* Part 1: ConversationStore of store/conversation_store_old.py            *)
(*         (processing, _generate_response, interrupt_current_task,        *)
(*         interupt_process) running on one asyncio event loop.            *)
(* Part 2: AgentWorkflow of core/01.py (process_message and                *)
(*         execute_workflow) driven by websocket_handler.                  *)
(*                                                                         *)
(* asyncio is modelled as it schedules: one coroutine runs at a time       *)
(* (cur), it gives up the loop only at an await that really suspends, and  *)
(* the coroutines that became runnable wait in a FIFO queue (ready).       *)
(* Task.cancel() marks the task (mc, asyncio's _must_cancel), makes it     *)
(* runnable, and CancelledError is raised in it at its next step.          *)
(***************************************************************************)
EXTENDS Integers, Sequences, FiniteSets, TLC

\* ------------------------------------------------------------------ bounds
MaxTurns  == 3      \* user turns received on one conversation
MaxChunks == 1      \* chunk fragments the agent yields in all
MaxMsgs   == 4      \* messages the workflow's websocket receives
MaxTasks  == 3      \* execute_workflow tasks the workflow creates
MaxRaises == 1      \* times the agent's stream raises in all
MaxErrTurns == 2    \* user turns of a conversation whose agent may raise
MaxMessages == 2    \* messages add_message appends
MaxCount  == 3      \* largest count get_recent_messages is called with
MaxCached == 2      \* messages send_message is called with, outside a flush
MaxPending == 4     \* length of the list of cached messages
MaxConnects == 2    \* connections the session manager accepts
MaxSockets == 3     \* websocket connections opened for the thread_id
MaxSections == 3    \* sections of the outline (the code creates three or more)
MaxContent == 2     \* pieces of text in the content of a section

Turns == 1..MaxTurns

\* ------------------------------------------------------------- variables
VARIABLES
    history,        \* self.history: sequence of [role, content]
    full_response,  \* self.full_response: sequence of fragments
    cancel_event,   \* self._cancel_event.is_set()
    current_task,   \* self.current_task: 0 is None, else the task's id
    gen,            \* the _generate_response tasks, by id
    turn,           \* the coroutines handling one user turn each, by id
    joiners,        \* per task: the turns awaiting it, in await order
    ready,          \* the event loop's FIFO queue of runnable coroutines
    cur,            \* the coroutine the loop is running, or NoCo
    sink,           \* what websocket.send_json was given, in call order
    emitted,        \* per task: the fragments it appended to full_response
    nchunks,        \* chunk fragments the agent has yielded so far
    nraises,        \* times the agent's stream has raised so far
    \* ---- AgentWorkflow (core/01.py) on its own event loop
    state,          \* self.state
    ctx_task,       \* self.context["current_task"]: 0 is None
    pending_future, \* self.pending_future: 0 is None, else the future's id
    fstat,          \* per future: "none", "pending", "set" or "cancelled"
    fres,           \* per future: the result given to set_result
    fwaiters,       \* per future: the tasks awaiting it, in await order
    wt,             \* the execute_workflow tasks, by id
    hd,             \* websocket_handler's receive loop
    inbox,          \* number of messages received and not yet taken by
                    \* the loop (a message's text is drawn when it is taken)
    nmsgs,          \* messages received so far
    wready,         \* the event loop's FIFO queue of runnable coroutines
    wcur,           \* the coroutine the loop is running, or NoCo
    wsink,          \* what the websocket was given to send, in call order
    \* ---- ConversationStore (store/conversation_store.py)
    messages,       \* self.conversation.messages: sequence of [role, content]
    \* ---- websocket_endpoint (api/controllers/websocket_controller.py)
    ctl,            \* the receive loop and the generation it runs inline
    csink,          \* what the websocket was given to send, in call order
    db,             \* the rows of the messages table of the conversation
    recent,         \* the last call of get_recent_messages: count, result
    \* ---- SessionManager (store/session_manager.py), one thread_id
    active_connections, \* thread_id in self.active_connections
    has_pending,    \* thread_id in self.pending_messages
    pending_messages,   \* self.pending_messages[thread_id], the messages
    fl,             \* the coroutine running _flush_pending_messages
    wire,           \* what websocket.send_json has sent, in order
    nsent,          \* calls of send_message from outside a flush
    nconn,          \* calls of connect
    \* ---- the registry of the controller (websocket_controller.py), one
    \* ---- thread_id
    active_conversations,   \* active_conversations.get(thread_id): the
                    \* number of the registered instance, 0 when absent
    sock,           \* each connection's websocket_endpoint: where it is,
                    \* and the instance its variable conv names
    ninst,          \* ConversationStore instances constructed so far
    \* ---- the client of the workflow, when it follows a script
    sent,           \* the texts it has sent, in order
    \* ---- the report of a ConversationStore (store/conversation_store.py)
    phase,          \* self.conversation.phase
    sections        \* self.conversation.sections: status and content of each

svars == <<history, full_response, cancel_event, current_task, gen, turn,
           joiners, ready, cur, sink, emitted, nchunks, nraises>>

\* what the agent has done so far
agent == <<nchunks, nraises>>

wvars == <<state, ctx_task, pending_future, fstat, fres, fwaiters, wt, hd,
           inbox, nmsgs, wready, wcur, wsink>>

cvars == <<messages, ctl, csink, db, recent>>

mvars == <<active_connections, has_pending, pending_messages, fl, wire,
           nsent, nconn>>

rvars == <<active_conversations, sock, ninst>>

uvars == <<sent>>

pvars == <<phase, sections>>

\* the endpoint's loop before it has received anything
NewCtl == [pc |-> "recv", mode |-> "unset", inbox |-> 0, recvd |-> 0,
           full |-> <<>>]

\* get_recent_messages has not been called
NoRecent == [count |-> -1, out |-> <<>>]
\* the controller's conversation has not been used
CtlFresh == messages = <<>> /\ ctl = NewCtl /\ recent = NoRecent

NoCo  == <<"none", 0>>
TCo(i) == <<"turn", i>>
GCo(t) == <<"gen", t>>

\* content of the user turn i, and the k-th fragment of task t
UserText(i) == <<100 + i>>
Frag(t, k)  == 10 * t + k

Msg(r, c) == [role |-> r, content |-> c]
Ev(ty, s, f) == [type |-> ty, src |-> s, frag |-> f]

NoGen  == [pc |-> "absent", wait |-> "none", mc |-> FALSE, item |-> "none",
           n |-> 0, res |-> "none"]
NoTurn == [pc |-> "absent", kind |-> "new", target |-> 0, wait |-> "none"]

\* asyncio.Task.done()
TaskDone(t) == gen[t].res # "none"
\* a task that was created and has not reached a terminal state
Live(t) == gen[t].pc # "absent" /\ gen[t].res = "none"

StoreInit ==
    /\ history = <<>>
    /\ full_response = <<>>
    /\ cancel_event = FALSE
    /\ current_task = 0
    /\ gen = [t \in Turns |-> NoGen]
    /\ turn = [i \in Turns |-> NoTurn]
    /\ joiners = [t \in Turns |-> <<>>]
    /\ ready = <<>>
    /\ cur = NoCo
    /\ sink = <<>>
    /\ emitted = [t \in Turns |-> <<>>]
    /\ nchunks = 0
    /\ nraises = 0

\* ------------------------------------------------------ the event loop
\* the loop takes the next runnable coroutine
Dispatch ==
    /\ cur = NoCo
    /\ ready # <<>>
    /\ cur' = Head(ready)
    /\ ready' = Tail(ready)
    /\ UNCHANGED <<history, full_response, cancel_event, current_task, gen,
                   turn, joiners, sink, emitted, agent>>

\* await websocket.send_json(...) suspends the sender
SendSuspend ==
    \E i \in Turns :
        /\ cur = TCo(i)
        /\ turn[i].wait = "sending"
        /\ turn' = [turn EXCEPT ![i].wait = "io"]
        /\ cur' = NoCo
        /\ UNCHANGED <<history, full_response, cancel_event, current_task,
                       gen, joiners, ready, sink, emitted, agent>>

\* the transport finishes a send: the sender becomes runnable. The loop
\* learns of I/O between two coroutine steps, never within one.
SendDone ==
    \E i \in Turns :
        /\ cur = NoCo
        /\ turn[i].wait = "io"
        /\ turn' = [turn EXCEPT ![i].wait = "none"]
        /\ ready' = Append(ready, TCo(i))
        /\ UNCHANGED <<history, full_response, cancel_event, current_task,
                       gen, joiners, cur, sink, emitted, agent>>

\* self.agent.run(...) delivers its next item to the task awaiting it:
\* chunk fragments, then the complete marker; or the stream raises
\* ("raise") in place of any of them
AgentYield(t, it) ==
    /\ cur = NoCo
    /\ gen[t].pc = "pull"
    /\ gen[t].wait = "io"
    /\ it = "chunk" => nchunks < MaxChunks
    /\ it = "raise" => nraises < MaxRaises
    /\ nchunks' = IF it = "chunk" THEN nchunks + 1 ELSE nchunks
    /\ nraises' = IF it = "raise" THEN nraises + 1 ELSE nraises
    /\ gen' = [gen EXCEPT ![t].wait = "none", ![t].item = it,
                          ![t].n = IF it = "chunk" THEN @ + 1 ELSE @]
    /\ ready' = Append(ready, GCo(t))
    /\ UNCHANGED <<history, full_response, cancel_event, current_task,
                   turn, joiners, cur, sink, emitted>>


\* ------------------------------------------- ConversationStore: the task
\* a task reaches a terminal state: everything awaiting it becomes
\* runnable, in the order the awaits were made
Terminate(t, result) ==
    /\ gen' = [gen EXCEPT ![t].pc = "done", ![t].res = result,
                          ![t].wait = "none", ![t].item = "none"]
    /\ turn' = [i \in Turns |->
                  IF \E k \in 1..Len(joiners[t]) : joiners[t][k] = i
                  THEN [turn[i] EXCEPT !.wait = "none"] ELSE turn[i]]
    /\ ready' = ready \o [k \in 1..Len(joiners[t]) |-> TCo(joiners[t][k])]
    /\ joiners' = [joiners EXCEPT ![t] = <<>>]
    /\ cur' = NoCo

FinallyClear(t) == 0
FinallyKeep(t) == current_task
\* _generate_response, finally: the handle is cleared by its own task only
FinallyHandle(t) == IF current_task = t THEN 0 ELSE current_task

\* the first step of a task: a task cancelled before it ever ran ends
\* without entering the coroutine; otherwise it awaits the agent's stream
GenStart(t) ==
    /\ cur = GCo(t)
    /\ gen[t].pc = "new"
    /\ IF gen[t].mc
       THEN /\ Terminate(t, "cancelled")
            /\ UNCHANGED <<history, full_response, cancel_event,
                           current_task, sink, emitted, agent>>
       ELSE /\ gen' = [gen EXCEPT ![t].pc = "pull", ![t].wait = "io"]
            /\ cur' = NoCo
            /\ UNCHANGED <<history, full_response, cancel_event,
                           current_task, turn, joiners, ready, sink,
                           emitted, agent>>

\* CancelledError raised at the await the task was suspended in:
\* re-raised, the finally clause runs
GenCancelled(t) ==
    /\ cur = GCo(t)
    /\ gen[t].pc = "pull"
    /\ gen[t].mc
    /\ current_task' = FinallyHandle(t)
    /\ Terminate(t, "cancelled")
    /\ UNCHANGED <<history, full_response, cancel_event, sink, emitted, agent>>

\* the cancel flag is seen set at the top of the loop body: break, the
\* finally clause runs and the task ends without saving the buffer
GenBreak(t) ==
    /\ current_task' = FinallyHandle(t)
    /\ Terminate(t, "finished")
    /\ UNCHANGED <<history, full_response, cancel_event, sink, emitted, agent>>

GenChunkUnchecked(t) ==
    /\ cur = GCo(t)
    /\ gen[t].pc = "pull"
    /\ ~gen[t].mc
    /\ gen[t].item = "chunk"
    /\ full_response' = Append(full_response, Frag(t, gen[t].n))
    /\ emitted' = [emitted EXCEPT ![t] = Append(@, Frag(t, gen[t].n))]
    /\ sink' = Append(sink, Ev("chunk", t, Frag(t, gen[t].n)))
    /\ gen' = [gen EXCEPT ![t].wait = "io", ![t].item = "none"]
    /\ cur' = NoCo
    /\ UNCHANGED <<history, cancel_event, current_task, turn, joiners, ready,
                   agent>>
\* a chunk: appended to full_response and sent to the client; the task
\* then awaits the send and the next item of the stream, and nothing of it
\* runs between the two awaits, so they are one suspension here
GenChunk(t) ==
    /\ cur = GCo(t)
    /\ gen[t].pc = "pull"
    /\ ~gen[t].mc
    /\ gen[t].item = "chunk"
    /\ IF cancel_event
       THEN GenBreak(t)
       ELSE /\ full_response' = Append(full_response, Frag(t, gen[t].n))
            /\ emitted' = [emitted EXCEPT ![t] = Append(@, Frag(t, gen[t].n))]
            /\ sink' = Append(sink, Ev("chunk", t, Frag(t, gen[t].n)))
            /\ gen' = [gen EXCEPT ![t].wait = "io", ![t].item = "none"]
            /\ cur' = NoCo
            /\ UNCHANGED <<history, cancel_event, current_task, turn,
                           joiners, ready, agent>>

\* what the store sends when the stream completes (the send of a
\* complete event is commented out in the source)
CompleteEvents(t) == <<>>

\* the complete marker: the reply is saved and the buffer cleared; the
\* agent's generator is exhausted after it, so the loop and the task end
GenComplete(t) ==
    /\ cur = GCo(t)
    /\ gen[t].pc = "pull"
    /\ ~gen[t].mc
    /\ gen[t].item = "complete"
    /\ IF cancel_event
       THEN GenBreak(t)
       ELSE /\ history' = Append(history, Msg("assistant", full_response))
            /\ full_response' = <<>>
            /\ sink' = sink \o CompleteEvents(t)
            /\ current_task' = FinallyHandle(t)
            /\ Terminate(t, "finished")
            /\ UNCHANGED <<cancel_event, emitted, agent>>


\* the stream raised: the except Exception clause sends the error event;
\* neither the history nor the buffer is touched
GenError(t) ==
    /\ cur = GCo(t)
    /\ gen[t].pc = "pull"
    /\ ~gen[t].mc
    /\ gen[t].item = "raise"
    /\ sink' = Append(sink, Ev("error", t, 0))
    /\ gen' = [gen EXCEPT ![t].pc = "err_send", ![t].wait = "sending",
                          ![t].item = "none"]
    /\ UNCHANGED <<history, full_response, cancel_event, current_task, turn,
                   joiners, ready, cur, emitted, agent>>

\* await websocket.send_json(...) of the error event suspends the task
GenSendSuspend(t) ==
    /\ cur = GCo(t)
    /\ gen[t].wait = "sending"
    /\ gen' = [gen EXCEPT ![t].wait = "io"]
    /\ cur' = NoCo
    /\ UNCHANGED <<history, full_response, cancel_event, current_task, turn,
                   joiners, ready, sink, emitted, agent>>

\* the transport finishes the send of the error event
GenSendDone(t) ==
    /\ cur = NoCo
    /\ gen[t].pc = "err_send"
    /\ gen[t].wait = "io"
    /\ gen' = [gen EXCEPT ![t].wait = "none"]
    /\ ready' = Append(ready, GCo(t))
    /\ UNCHANGED <<history, full_response, cancel_event, current_task, turn,
                   joiners, cur, sink, emitted, agent>>

\* after the send of the error event the finally clause runs and the task
\* ends: normally, or cancelled when cancel() was called during the send
GenErrorEnd(t) ==
    /\ cur = GCo(t)
    /\ gen[t].pc = "err_send"
    /\ current_task' = FinallyHandle(t)
    /\ Terminate(t, IF gen[t].mc THEN "cancelled" ELSE "finished")
    /\ UNCHANGED <<history, full_response, cancel_event, sink, emitted,
                   agent>>

\* the CancelledError is thrown into the agent's generator, where the task
\* is suspended; the generator is not code of this repository and it may
\* absorb the exception and go on streaming
GenAbsorb(t) ==
    /\ cur = GCo(t)
    /\ gen[t].pc = "pull"
    /\ gen[t].mc
    /\ gen' = [gen EXCEPT ![t].mc = FALSE,
                          ![t].wait = IF gen[t].item = "none" THEN "io"
                                      ELSE "none"]
    /\ cur' = IF gen[t].item = "none" THEN NoCo ELSE cur
    /\ UNCHANGED <<history, full_response, cancel_event, current_task, turn,
                   joiners, ready, sink, emitted, agent>>

\* ---------------------------------- ConversationStore: handling a turn
\* A user turn is handled by a coroutine of its own, so that turns overlap
\* (new input arrives while a generation or a drain is in progress). It
\* calls interrupt_current_task(), then interupt_process() when a task was
\* interrupted, then processing(text) unless the text is a stop command.
\* The store and the workflow are separate programs: input goes to the one
\* that runs (nmsgs = 0: the workflow has received nothing).
Receive(k) ==
    /\ cur = NoCo
    /\ nmsgs = 0
    /\ CtlFresh
    /\ \E i \in Turns :
        /\ turn[i].pc = "absent"
        /\ \A j \in Turns : j < i => turn[j].pc # "absent"
        /\ turn' = [turn EXCEPT ![i] = [pc |-> "start", kind |-> k,
                                        target |-> 0, wait |-> "none"]]
        /\ ready' = Append(ready, TCo(i))
    /\ UNCHANGED <<history, full_response, cancel_event, current_task, gen,
                   joiners, cur, sink, emitted, agent>>

\* Task.cancel(): CancelledError is due at the task's next step; a task
\* suspended in an await is made runnable
Cancel(g, t) ==
    [g EXCEPT ![t].mc = TRUE, ![t].wait = "none"]

\* interrupt_current_task(), up to the bounded wait for the task; without
\* an unfinished task it returns False and changes nothing
InterruptCurrentTask(i) ==
    /\ cur = TCo(i)
    /\ turn[i].pc = "start"
    /\ IF current_task # 0 /\ ~TaskDone(current_task)
       THEN /\ cancel_event' = TRUE
            /\ gen' = Cancel(gen, current_task)
            /\ ready' = IF gen[current_task].wait = "io"
                        THEN Append(ready, GCo(current_task)) ELSE ready
            /\ joiners' = [joiners EXCEPT ![current_task] = Append(@, i)]
            /\ turn' = [turn EXCEPT ![i].pc = "int_wait",
                                    ![i].target = current_task,
                                    ![i].wait = "join"]
            /\ cur' = NoCo
            /\ UNCHANGED <<history, full_response, current_task, sink,
                           emitted, agent>>
       ELSE /\ turn' = [turn EXCEPT ![i].pc = "int_false"]
            /\ UNCHANGED <<history, full_response, cancel_event,
                           current_task, gen, joiners, ready, cur, sink,
                           emitted, agent>>

\* asyncio.wait_for(task, timeout=2.0): the timeout elapses with the task
\* unfinished. The task, made runnable by cancel(), runs before the timer
\* can fire, so it has absorbed that cancellation. wait_for cancels the
\* task again and goes on waiting until the task has ended.
InterruptTimeout(i) ==
    /\ cur = NoCo
    /\ turn[i].pc = "int_wait"
    /\ Live(turn[i].target)
    /\ ~gen[turn[i].target].mc
    /\ gen' = Cancel(gen, turn[i].target)
    /\ ready' = IF gen[turn[i].target].wait = "io"
                THEN Append(ready, GCo(turn[i].target)) ELSE ready
    /\ turn' = [turn EXCEPT ![i].pc = "int_timeout"]
    /\ UNCHANGED <<history, full_response, cancel_event, current_task,
                   joiners, cur, sink, emitted, agent>>

InterruptReturnKeepFlag(i) ==
    /\ cur = TCo(i)
    /\ turn[i].pc \in {"int_wait", "int_timeout"}
    /\ current_task' = 0
    /\ turn' = [turn EXCEPT ![i].pc = "int_true"]
    /\ UNCHANGED <<history, full_response, cancel_event, gen, joiners, ready,
                   cur, sink, emitted, agent>>
\* interrupt_current_task(), after the wait: the finally clause clears the
\* flag and the handle, and True is returned
InterruptReturn(i) ==
    /\ cur = TCo(i)
    /\ turn[i].pc \in {"int_wait", "int_timeout"}
    /\ cancel_event' = FALSE
    /\ current_task' = 0
    /\ turn' = [turn EXCEPT ![i].pc = "int_true"]
    /\ UNCHANGED <<history, full_response, gen, joiners, ready, cur, sink,
                   emitted, agent>>

InteruptProcessKeep(i) ==
    /\ cur = TCo(i)
    /\ turn[i].pc = "int_true"
    /\ history' = Append(history, Msg("assistant", full_response))
    /\ sink' = Append(sink, Ev("interrupt", i, 0))
    /\ turn' = [turn EXCEPT ![i].pc = "ip_sent", ![i].wait = "sending"]
    /\ UNCHANGED <<full_response, cancel_event, current_task, gen, joiners,
                   ready, cur, emitted, agent>>
\* interupt_process(): the buffer is saved as an assistant turn and
\* cleared, and the interrupt event is sent
InteruptProcess(i) ==
    /\ cur = TCo(i)
    /\ turn[i].pc = "int_true"
    /\ history' = Append(history, Msg("assistant", full_response))
    /\ full_response' = <<>>
    /\ sink' = Append(sink, Ev("interrupt", i, 0))
    /\ turn' = [turn EXCEPT ![i].pc = "ip_sent", ![i].wait = "sending"]
    /\ UNCHANGED <<cancel_event, current_task, gen, joiners, ready, cur,
                   emitted, agent>>

\* the turn is past the interruption
PastInterrupt(i) == turn[i].pc \in {"int_false", "ip_sent"}

\* processing(user_input), up to "await self.current_task": the user turn
\* is saved and a new generation task is created and stored in the handle
Processing(i) ==
    /\ cur = TCo(i)
    /\ PastInterrupt(i)
    /\ turn[i].kind = "new"
    /\ history' = Append(history, Msg("user", UserText(i)))
    /\ gen' = [gen EXCEPT ![i] = [NoGen EXCEPT !.pc = "new"]]
    /\ current_task' = i
    /\ ready' = Append(ready, GCo(i))
    /\ joiners' = [joiners EXCEPT ![i] = <<i>>]
    /\ turn' = [turn EXCEPT ![i].pc = "proc_wait", ![i].target = i,
                            ![i].wait = "join"]
    /\ cur' = NoCo
    /\ UNCHANGED <<full_response, cancel_event, sink, emitted, agent>>

\* a stop command starts no generation
StopDone(i) ==
    /\ cur = TCo(i)
    /\ PastInterrupt(i)
    /\ turn[i].kind = "stop"
    /\ turn' = [turn EXCEPT ![i].pc = "done", ![i].wait = "none"]
    /\ cur' = NoCo
    /\ UNCHANGED <<history, full_response, cancel_event, current_task, gen,
                   joiners, ready, sink, emitted, agent>>

\* processing(), the awaited task finished normally
ProcessingReturn(i) ==
    /\ cur = TCo(i)
    /\ turn[i].pc = "proc_wait"
    /\ gen[i].res = "finished"
    /\ turn' = [turn EXCEPT ![i].pc = "done"]
    /\ cur' = NoCo
    /\ UNCHANGED <<history, full_response, cancel_event, current_task, gen,
                   joiners, ready, sink, emitted, agent>>

\* processing() with a handler that awaits a save to the database before it
\* sends the cancelled event
ProcessingCancelledLate(i) ==
    /\ cur = TCo(i)
    /\ turn[i].pc = "proc_wait"
    /\ gen[i].res = "cancelled"
    /\ IF turn[i].target # 0
       THEN /\ turn' = [turn EXCEPT ![i].target = 0, ![i].wait = "io"]
            /\ UNCHANGED sink
       ELSE /\ turn' = [turn EXCEPT ![i].pc = "done"]
            /\ sink' = Append(sink, Ev("cancelled", i, 0))
    /\ cur' = NoCo
    /\ UNCHANGED <<history, full_response, cancel_event, current_task, gen,
                   joiners, ready, emitted, agent>>

\* processing(), the awaited task was cancelled: the cancelled event is
\* sent and processing() returns
ProcessingCancelled(i) ==
    /\ cur = TCo(i)
    /\ turn[i].pc = "proc_wait"
    /\ gen[i].res = "cancelled"
    /\ sink' = Append(sink, Ev("cancelled", i, 0))
    /\ turn' = [turn EXCEPT ![i].pc = "done"]
    /\ cur' = NoCo
    /\ UNCHANGED <<history, full_response, cancel_event, current_task, gen,
                   joiners, ready, emitted, agent>>

\* the turn, or the task, whose coroutine the loop is running
TurnRunning == IF cur[1] = "turn" THEN {cur[2]} ELSE {}
GenRunning  == IF cur[1] = "gen" THEN {cur[2]} ELSE {}

\* every step of the store but the arrival of a turn; the agent's stream is
\* healthy here (chunks, then the complete marker)
StoreSteps ==
    \/ Dispatch /\ UNCHANGED <<wvars, cvars, mvars, rvars, uvars, pvars>>
    \/ SendSuspend /\ UNCHANGED <<wvars, cvars, mvars, rvars, uvars, pvars>>
    \/ SendDone /\ UNCHANGED <<wvars, cvars, mvars, rvars, uvars, pvars>>
    \/ \E t \in Turns, it \in {"chunk", "complete"} :
          AgentYield(t, it) /\ UNCHANGED <<wvars, cvars, mvars, rvars, uvars, pvars>>
    \/ \E t \in GenRunning : GenStart(t) /\ UNCHANGED <<wvars, cvars, mvars, rvars, uvars, pvars>>
    \/ \E t \in GenRunning : GenCancelled(t) /\ UNCHANGED <<wvars, cvars, mvars, rvars, uvars, pvars>>
    \/ \E t \in GenRunning : GenChunk(t) /\ UNCHANGED <<wvars, cvars, mvars, rvars, uvars, pvars>>
    \/ \E t \in GenRunning : GenComplete(t) /\ UNCHANGED <<wvars, cvars, mvars, rvars, uvars, pvars>>
    \/ \E i \in TurnRunning : InterruptCurrentTask(i) /\ UNCHANGED <<wvars, cvars, mvars, rvars, uvars, pvars>>
    \/ \E i \in TurnRunning : InterruptReturn(i) /\ UNCHANGED <<wvars, cvars, mvars, rvars, uvars, pvars>>
    \/ \E i \in TurnRunning : InteruptProcess(i) /\ UNCHANGED <<wvars, cvars, mvars, rvars, uvars, pvars>>
    \/ \E i \in TurnRunning : Processing(i) /\ UNCHANGED <<wvars, cvars, mvars, rvars, uvars, pvars>>
    \/ \E i \in TurnRunning : StopDone(i) /\ UNCHANGED <<wvars, cvars, mvars, rvars, uvars, pvars>>
    \/ \E i \in TurnRunning : ProcessingReturn(i) /\ UNCHANGED <<wvars, cvars, mvars, rvars, uvars, pvars>>
    \/ \E i \in TurnRunning : ProcessingCancelled(i) /\ UNCHANGED <<wvars, cvars, mvars, rvars, uvars, pvars>>

StoreNext ==
    \/ \E k \in {"new", "stop"} : Receive(k) /\ UNCHANGED <<wvars, cvars, mvars, rvars, uvars, pvars>>
    \/ StoreSteps

\* the steps of a generation whose agent stream raises, or absorbs a
\* cancellation
ErrSteps ==
    \/ \E t \in Turns : AgentYield(t, "raise") /\ UNCHANGED <<wvars, cvars, mvars, rvars, uvars, pvars>>
    \/ \E t \in GenRunning : GenError(t) /\ UNCHANGED <<wvars, cvars, mvars, rvars, uvars, pvars>>
    \/ \E t \in GenRunning : GenSendSuspend(t) /\ UNCHANGED <<wvars, cvars, mvars, rvars, uvars, pvars>>
    \/ \E t \in Turns : GenSendDone(t) /\ UNCHANGED <<wvars, cvars, mvars, rvars, uvars, pvars>>
    \/ \E t \in GenRunning : GenErrorEnd(t) /\ UNCHANGED <<wvars, cvars, mvars, rvars, uvars, pvars>>
    \/ \E t \in GenRunning : GenAbsorb(t) /\ UNCHANGED <<wvars, cvars, mvars, rvars, uvars, pvars>>
    \/ \E i \in Turns : InterruptTimeout(i) /\ UNCHANGED <<wvars, cvars, mvars, rvars, uvars, pvars>>

\* a conversation of at most MaxErrTurns turns
ReceiveFew(k) ==
    /\ turn[MaxErrTurns].pc = "absent"
    /\ Receive(k)

StoreErrNext ==
    \/ \E k \in {"new", "stop"} : ReceiveFew(k) /\ UNCHANGED <<wvars, cvars, mvars, rvars, uvars, pvars>>
    \/ StoreSteps
    \/ ErrSteps

\* =================================================== AgentWorkflow (01.py)
Tasks == 1..MaxTasks
Futs  == 1..MaxMsgs
\* the messages a client sends, in pinyin: the texts the code compares a
\* message with ("jixu" continue, "zhongduan" interrupt, "xiugai" modify,
\* "xiugai1" modify chapter one) and any other text
Texts == {"jixu", "zhongduan", "xiugai", "xiugai1", "other"}

HCo    == <<"handler", 0>>
WCo(t) == <<"wf", t>>

WEv(ty, s) == [type |-> ty, src |-> s]

\* mc: a CancelledError is due at the task's next step; cr: cancel() was
\* called on the task (Task.cancelling() > 0)
NoTask == [pc |-> "absent", wait |-> "none", mc |-> FALSE, cr |-> FALSE,
           fw |-> 0, stage |-> 0, res |-> "none"]

WLive(t) == wt[t].pc # "absent" /\ wt[t].res = "none"
NextTask == CHOOSE t \in Tasks : wt[t].pc = "absent" /\
                                 \A u \in Tasks : u < t => wt[u].pc # "absent"
NextFut  == CHOOSE f \in Futs : fstat[f] = "none" /\
                                \A g \in Futs : g < f => fstat[g] # "none"

WFInit ==
    /\ state = "idle"
    /\ ctx_task = 0
    /\ pending_future = 0
    /\ fstat = [f \in Futs |-> "none"]
    /\ fres = [f \in Futs |-> "none"]
    /\ fwaiters = [f \in Futs |-> <<>>]
    /\ wt = [t \in Tasks |-> NoTask]
    /\ hd = [pc |-> "loop", wait |-> "recv"]
    /\ inbox = 0
    /\ nmsgs = 0
    /\ wready = <<>>
    /\ wcur = NoCo
    /\ wsink = <<>>

\* ------------------------------------------------------ the event loop
WDispatch ==
    /\ wcur = NoCo
    /\ wready # <<>>
    /\ wcur' = Head(wready)
    /\ wready' = Tail(wready)
    /\ UNCHANGED <<state, ctx_task, pending_future, fstat, fres, fwaiters,
                   wt, hd, inbox, nmsgs, wsink>>

\* await websocket.send_json(...) suspends the sender
WSendSuspend ==
    /\ \/ /\ wcur = HCo
          /\ hd.wait = "sending"
          /\ hd' = [hd EXCEPT !.wait = "io"]
          /\ wt' = wt
       \/ \E t \in Tasks :
          /\ wcur = WCo(t)
          /\ wt[t].wait = "sending"
          /\ wt' = [wt EXCEPT ![t].wait = "io"]
          /\ hd' = hd
    /\ wcur' = NoCo
    /\ UNCHANGED <<state, ctx_task, pending_future, fstat, fres, fwaiters,
                   inbox, nmsgs, wready, wsink>>

\* a send finishes or a sleep elapses: the coroutine becomes runnable
WIODone ==
    /\ wcur = NoCo
    /\ \/ /\ hd.wait = "io"
          /\ hd' = [hd EXCEPT !.wait = "none"]
          /\ wready' = Append(wready, HCo)
          /\ wt' = wt
       \/ \E t \in Tasks :
          /\ wt[t].wait = "io"
          /\ wt' = [wt EXCEPT ![t].wait = "none"]
          /\ wready' = Append(wready, WCo(t))
          /\ hd' = hd
    /\ UNCHANGED <<state, ctx_task, pending_future, fstat, fres, fwaiters,
                   inbox, nmsgs, wcur, wsink>>

\* a message arrives on the websocket (of the workflow, when it is the
\* program that runs: the store has received no turn)
Arrive ==
    /\ wcur = NoCo
    /\ \A i \in Turns : turn[i].pc = "absent"
    /\ CtlFresh
    /\ nmsgs < MaxMsgs
    /\ nmsgs' = nmsgs + 1
    /\ inbox' = inbox + 1
    /\ IF hd.wait = "recv"
       THEN /\ hd' = [hd EXCEPT !.wait = "none"]
            /\ wready' = Append(wready, HCo)
       ELSE UNCHANGED <<hd, wready>>
    /\ UNCHANGED <<state, ctx_task, pending_future, fstat, fres, fwaiters,
                   wt, wcur, wsink>>

\* websocket_handler: "async for message in websocket" with none queued
HRecvWait ==
    /\ wcur = HCo
    /\ hd.pc = "loop"
    /\ inbox = 0
    /\ hd' = [hd EXCEPT !.wait = "recv"]
    /\ wcur' = NoCo
    /\ UNCHANGED <<state, ctx_task, pending_future, fstat, fres, fwaiters,
                   wt, inbox, nmsgs, wready, wsink>>

\* the loop holds the next message and process_message sees state st
Takes(st) ==
    /\ wcur = HCo
    /\ hd.pc = "loop"
    /\ inbox > 0
    /\ state = st

\* fewer than MaxTasks tasks were created
CanCreate == \E t \in Tasks : wt[t].pc = "absent"

\* asyncio.create_task(self.execute_workflow())
CreateTask(w) == [w EXCEPT ![NextTask] = [NoTask EXCEPT !.pc = "new"]]

\* start_workflow(message): from IDLE, or from INTERRUPTED with a message
\* other than "jixu"
StartWorkflow(m) ==
    /\ \/ Takes("idle")
       \/ Takes("interrupted") /\ m # "jixu"
    /\ CanCreate
    /\ inbox' = inbox - 1
    /\ state' = "executing"
    /\ wt' = CreateTask(wt)
    /\ ctx_task' = NextTask
    /\ wready' = Append(wready, WCo(NextTask))
    /\ wsink' = Append(wsink, WEv("status", 0))
    /\ hd' = [hd EXCEPT !.wait = "sending"]
    /\ UNCHANGED <<pending_future, fstat, fres, fwaiters, nmsgs, wcur>>

\* the tasks awaiting future f
Awaiting(f) == {t \in Tasks : wt[t].wait = "fut" /\ wt[t].fw = f}
WaitersCo(f) == [k \in 1..Len(fwaiters[f]) |-> WCo(fwaiters[f][k])]

\* Task.cancel() on task t: nothing for a finished task; CancelledError is
\* due at the next step of an unfinished one. A task suspended in a send or
\* a sleep becomes runnable; for a task awaiting a future the future is
\* cancelled, which raises CancelledError in everything awaiting it.
WCancelWt(t) ==
    IF t = 0 \/ ~WLive(t) THEN wt
    ELSE IF wt[t].wait = "fut"
    THEN [u \in Tasks |-> IF u \in Awaiting(wt[t].fw)
                          THEN [wt[u] EXCEPT !.mc = TRUE, !.wait = "none",
                                             !.cr = (@ \/ u = t)]
                          ELSE wt[u]]
    ELSE [wt EXCEPT ![t].mc = TRUE, ![t].wait = "none", ![t].cr = TRUE]
WCancelReady(t) ==
    IF t = 0 \/ ~WLive(t) THEN wready
    ELSE IF wt[t].wait = "fut" THEN wready \o WaitersCo(wt[t].fw)
    ELSE IF wt[t].wait = "io" THEN Append(wready, WCo(t))
    ELSE wready
WCancelFstat(t) ==
    IF t # 0 /\ WLive(t) /\ wt[t].wait = "fut"
    THEN [fstat EXCEPT ![wt[t].fw] = "cancelled"] ELSE fstat
WCancelWaiters(t) ==
    IF t # 0 /\ WLive(t) /\ wt[t].wait = "fut"
    THEN [fwaiters EXCEPT ![wt[t].fw] = <<>>] ELSE fwaiters

\* handle_interrupt(message): in EXECUTING every message interrupts
HandleInterrupt(m) ==
    /\ Takes("executing")
    /\ inbox' = inbox - 1
    /\ wt' = WCancelWt(ctx_task)
    /\ wready' = WCancelReady(ctx_task)
    /\ fstat' = WCancelFstat(ctx_task)
    /\ fwaiters' = WCancelWaiters(ctx_task)
    /\ state' = "interrupted"
    /\ wsink' = Append(wsink, WEv("interrupt", 0))
    /\ hd' = [hd EXCEPT !.wait = "sending"]
    /\ UNCHANGED <<ctx_task, pending_future, fres, nmsgs, wcur>>

\* handle_user_response(message) in AWAITING_USER. set_result gives the
\* reply to the future and the attribute is set to None: with no task
\* awaiting it the future is unreachable, and its result is not kept
HandleUserResponse(m) ==
    /\ Takes("awaiting_user")
    /\ inbox' = inbox - 1
    /\ IF pending_future # 0 /\ fstat[pending_future] = "pending"
       THEN /\ fstat' = [fstat EXCEPT ![pending_future] = "set"]
            /\ fres' = IF Awaiting(pending_future) = {} THEN fres
                       ELSE [fres EXCEPT ![pending_future] = m]
            /\ wt' = [u \in Tasks |-> IF u \in Awaiting(pending_future)
                                      THEN [wt[u] EXCEPT !.wait = "none"]
                                      ELSE wt[u]]
            /\ wready' = wready \o WaitersCo(pending_future)
            /\ fwaiters' = [fwaiters EXCEPT ![pending_future] = <<>>]
            /\ pending_future' = 0
            /\ state' = "executing"
            /\ hd' = [hd EXCEPT !.wait = "none"]
            /\ UNCHANGED wsink
       ELSE /\ wsink' = Append(wsink, WEv("error", 0))
            /\ hd' = [hd EXCEPT !.wait = "sending"]
            /\ UNCHANGED <<state, pending_future, fstat, fres, fwaiters, wt,
                           wready>>
    /\ UNCHANGED <<ctx_task, nmsgs, wcur>>

\* resume_workflow(), up to the send of the status message
ResumeWorkflow(m) ==
    /\ Takes("interrupted")
    /\ m = "jixu"
    /\ inbox' = inbox - 1
    /\ state' = "executing"
    /\ wsink' = Append(wsink, WEv("status", 0))
    /\ hd' = [pc |-> "resume", wait |-> "sending"]
    /\ UNCHANGED <<ctx_task, pending_future, fstat, fres, fwaiters, wt,
                   nmsgs, wready, wcur>>

\* resume_workflow(), after the send: the task is created
ResumeCreate ==
    /\ wcur = HCo
    /\ hd.pc = "resume"
    /\ CanCreate
    /\ wt' = CreateTask(wt)
    /\ ctx_task' = NextTask
    /\ wready' = Append(wready, WCo(NextTask))
    /\ hd' = [pc |-> "loop", wait |-> "none"]
    /\ UNCHANGED <<state, pending_future, fstat, fres, fwaiters, inbox,
                   nmsgs, wcur, wsink>>

\* process_message has no branch for COMPLETED: the message is dropped
DropMessage(m) ==
    /\ Takes("completed")
    /\ inbox' = inbox - 1
    /\ hd' = [hd EXCEPT !.wait = "none"]
    /\ UNCHANGED <<state, ctx_task, pending_future, fstat, fres, fwaiters,
                   wt, nmsgs, wready, wcur, wsink>>

\* process_message(m), up to the handler's next await
ProcessMessage(m) ==
    \/ StartWorkflow(m)
    \/ HandleInterrupt(m)
    \/ HandleUserResponse(m)
    \/ ResumeWorkflow(m)
    \/ DropMessage(m)

\* -------------------------------------------------- execute_workflow
\* task t is running at one of the positions pcs, and no CancelledError
\* is due
Runs(t, pcs) == wcur = WCo(t) /\ wt[t].pc \in pcs /\ ~wt[t].mc

\* the awaits inside the try block of execute_workflow
TryPcs == {"s1", "s2", "s3", "q_send", "q_wait", "m_send", "m_wait", "c1",
           "c2_send", "s4_send", "comp_send"}

\* the first step: a task cancelled before it ever ran ends without
\* entering the coroutine; otherwise step 1 is announced and the task
\* sleeps (the await of the send and the sleep are one suspension here)
WStart(t) ==
    /\ wcur = WCo(t)
    /\ wt[t].pc = "new"
    /\ IF wt[t].mc
       THEN /\ wt' = [wt EXCEPT ![t].pc = "done", ![t].res = "cancelled"]
            /\ UNCHANGED wsink
       ELSE /\ wt' = [wt EXCEPT ![t].pc = "s1", ![t].wait = "io"]
            /\ wsink' = Append(wsink, WEv("info", t))
    /\ wcur' = NoCo
    /\ UNCHANGED <<state, ctx_task, pending_future, fstat, fres, fwaiters,
                   hd, inbox, nmsgs, wready>>

\* step 2 is announced, the task sleeps
WStep2(t) ==
    /\ Runs(t, {"s1"})
    /\ wt' = [wt EXCEPT ![t].pc = "s2", ![t].wait = "io"]
    /\ wsink' = Append(wsink, WEv("info", t))
    /\ wcur' = NoCo
    /\ UNCHANGED <<state, ctx_task, pending_future, fstat, fres, fwaiters,
                   hd, inbox, nmsgs, wready>>

\* ask_user_decision, up to the send of the question: a new Future is
\* stored in pending_future and the state becomes AWAITING_USER
WAsk(t) ==
    /\ Runs(t, {"s2", "s3"})
    /\ fstat' = [fstat EXCEPT ![NextFut] = "pending"]
    /\ pending_future' = NextFut
    /\ state' = "awaiting_user"
    /\ wsink' = Append(wsink, WEv("question", t))
    /\ wt' = [wt EXCEPT ![t].pc = "q_send", ![t].wait = "sending",
                        ![t].stage = IF wt[t].pc = "s2" THEN 1 ELSE 2]
    /\ UNCHANGED <<ctx_task, fres, fwaiters, hd, inbox, nmsgs, wready,
                   wcur>>

\* the except CancelledError clause of execute_workflow
OnCancelled(t) ==
    /\ state' = "interrupted"
    /\ wsink' = Append(wsink, WEv("interrupt", t))
    /\ wt' = [wt EXCEPT ![t].pc = "int_send", ![t].wait = "sending",
                        ![t].mc = FALSE, ![t].fw = 0]

\* the except Exception clause of execute_workflow
OnException(t) ==
    /\ state' = "idle"
    /\ wsink' = Append(wsink, WEv("error", t))
    /\ wt' = [wt EXCEPT ![t].pc = "err_send", ![t].wait = "sending",
                        ![t].fw = 0]

\* ask_user_decision, "await self.pending_future": the attribute is read
\* after the send of the question. None cannot be awaited (TypeError), a
\* cancelled future raises CancelledError, a pending one suspends the task.
WAwait(t) ==
    /\ Runs(t, {"q_send"})
    /\ IF pending_future = 0
       THEN /\ OnException(t)
            /\ UNCHANGED <<fwaiters, wcur>>
       ELSE IF fstat[pending_future] = "cancelled"
       THEN /\ OnCancelled(t)
            /\ UNCHANGED <<fwaiters, wcur>>
       ELSE /\ wt' = [wt EXCEPT ![t].pc = "q_wait", ![t].wait = "fut",
                                ![t].fw = pending_future]
            /\ fwaiters' = [fwaiters EXCEPT ![pending_future] = Append(@, t)]
            /\ wcur' = NoCo
            /\ UNCHANGED <<state, wsink>>
    /\ UNCHANGED <<ctx_task, pending_future, fstat, fres, hd, inbox, nmsgs,
                   wready>>

\* the reply of a future is kept while a task that awaited it has yet to
\* read it; a resolved future nothing awaits is unreachable
Forget(t) ==
    IF wt[t].fw # 0 /\ ~\E u \in Tasks \ {t} : wt[u].fw = wt[t].fw
    THEN [fres EXCEPT ![wt[t].fw] = "none"] ELSE fres

\* CancelledError is raised at an await inside the try block
WCancelled(t) ==
    /\ wcur = WCo(t)
    /\ wt[t].pc \in TryPcs
    /\ wt[t].mc
    /\ OnCancelled(t)
    /\ UNCHANGED <<ctx_task, pending_future, fstat, fwaiters, hd,
                   inbox, nmsgs, wready, wcur>>
    /\ fres' = Forget(t)

\* execute_workflow after a decision: step 3 and a sleep after the first
\* one, the announcement of step 4 after the second
AfterAsk(t) ==
    IF wt[t].stage = 1
    THEN /\ wt' = [wt EXCEPT ![t].pc = "s3", ![t].wait = "io", ![t].fw = 0]
         /\ wsink' = Append(wsink, WEv("info", t))
         /\ wcur' = NoCo
    ELSE /\ wt' = [wt EXCEPT ![t].pc = "s4_send", ![t].wait = "sending",
                             ![t].fw = 0]
         /\ wsink' = Append(wsink, WEv("info", t))
         /\ wcur' = wcur

\* the reply the awaited future was resolved with
Reply(t) == fres[wt[t].fw]

\* ask_user_decision, the reply is "zhongduan": CancelledError is raised
WReplyInterrupt(t) ==
    /\ Runs(t, {"q_wait"})
    /\ Reply(t) = "zhongduan"
    /\ OnCancelled(t)
    /\ UNCHANGED <<ctx_task, pending_future, fstat, fwaiters, hd,
                   inbox, nmsgs, wready, wcur>>
    /\ fres' = Forget(t)

\* ask_user_decision, the reply is "xiugai": the user is asked for the
\* modification
WReplyModify(t) ==
    /\ Runs(t, {"q_wait"})
    /\ Reply(t) = "xiugai"
    /\ wsink' = Append(wsink, WEv("info", t))
    /\ wt' = [wt EXCEPT ![t].pc = "m_send", ![t].wait = "sending",
                        ![t].fw = 0]
    /\ UNCHANGED <<state, ctx_task, pending_future, fstat, fwaiters,
                   hd, inbox, nmsgs, wready, wcur>>
    /\ fres' = Forget(t)

\* wait_for_user_input: a new Future, AWAITING_USER, the task suspends
WModWait(t) ==
    /\ Runs(t, {"m_send"})
    /\ fstat' = [fstat EXCEPT ![NextFut] = "pending"]
    /\ pending_future' = NextFut
    /\ state' = "awaiting_user"
    /\ wt' = [wt EXCEPT ![t].pc = "m_wait", ![t].wait = "fut",
                        ![t].fw = NextFut]
    /\ fwaiters' = [fwaiters EXCEPT ![NextFut] = Append(@, t)]
    /\ wcur' = NoCo
    /\ UNCHANGED <<ctx_task, fres, hd, inbox, nmsgs, wready, wsink>>

\* the modification arrived: ask_user_decision returns
WModDone(t) ==
    /\ Runs(t, {"m_wait"})
    /\ AfterAsk(t)
    /\ UNCHANGED <<state, ctx_task, pending_future, fstat, fwaiters,
                   hd, inbox, nmsgs, wready>>
    /\ fres' = Forget(t)

\* ask_user_decision, the reply is "xiugai1": handle_chapter_modification
\* announces the modification and sleeps
WReplyChapter(t) ==
    /\ Runs(t, {"q_wait"})
    /\ Reply(t) = "xiugai1"
    /\ wsink' = Append(wsink, WEv("info", t))
    /\ wt' = [wt EXCEPT ![t].pc = "c1", ![t].wait = "io", ![t].fw = 0]
    /\ wcur' = NoCo
    /\ UNCHANGED <<state, ctx_task, pending_future, fstat, fwaiters,
                   hd, inbox, nmsgs, wready>>
    /\ fres' = Forget(t)

\* handle_chapter_modification, after the sleep
WChapter(t) ==
    /\ Runs(t, {"c1"})
    /\ wsink' = Append(wsink, WEv("info", t))
    /\ wt' = [wt EXCEPT ![t].pc = "c2_send", ![t].wait = "sending"]
    /\ UNCHANGED <<state, ctx_task, pending_future, fstat, fres, fwaiters,
                   hd, inbox, nmsgs, wready, wcur>>

\* handle_chapter_modification returned
WChapterDone(t) ==
    /\ Runs(t, {"c2_send"})
    /\ AfterAsk(t)
    /\ UNCHANGED <<state, ctx_task, pending_future, fstat, fres, fwaiters,
                   hd, inbox, nmsgs, wready>>

\* ask_user_decision, any other reply ("jixu" among them): it returns
WReplyContinue(t) ==
    /\ Runs(t, {"q_wait"})
    /\ Reply(t) \notin {"zhongduan", "xiugai", "xiugai1"}
    /\ AfterAsk(t)
    /\ UNCHANGED <<state, ctx_task, pending_future, fstat, fwaiters,
                   hd, inbox, nmsgs, wready>>
    /\ fres' = Forget(t)

\* the workflow is complete
WComplete(t) ==
    /\ Runs(t, {"s4_send"})
    /\ state' = "completed"
    /\ wsink' = Append(wsink, WEv("complete", t))
    /\ wt' = [wt EXCEPT ![t].pc = "comp_send", ![t].wait = "sending"]
    /\ UNCHANGED <<ctx_task, pending_future, fstat, fres, fwaiters, hd,
                   inbox, nmsgs, wready, wcur>>

\* the task ends: after the complete message, or after the message of an
\* except clause (a CancelledError raised there ends the task cancelled)
WFinish(t) ==
    /\ wcur = WCo(t)
    /\ \/ wt[t].pc \in {"int_send", "err_send"}
       \/ wt[t].pc = "comp_send" /\ ~wt[t].mc
    /\ wt' = [wt EXCEPT ![t].pc = "done", ![t].wait = "none",
                        ![t].res = IF wt[t].mc THEN "cancelled"
                                   ELSE "finished"]
    /\ wcur' = NoCo
    /\ UNCHANGED <<state, ctx_task, pending_future, fstat, fres, fwaiters,
                   hd, inbox, nmsgs, wready, wsink>>

\* the task whose coroutine the loop is running, and the texts the
\* handler may hold when it is the handler that runs
TaskRunning == IF wcur[1] = "wf" THEN {wcur[2]} ELSE {}
HandlerTexts == IF wcur = HCo THEN Texts ELSE {}

WFNext ==
    \/ WDispatch /\ UNCHANGED <<svars, cvars, mvars, rvars, uvars, pvars>>
    \/ WSendSuspend /\ UNCHANGED <<svars, cvars, mvars, rvars, uvars, pvars>>
    \/ WIODone /\ UNCHANGED <<svars, cvars, mvars, rvars, uvars, pvars>>
    \/ Arrive /\ UNCHANGED <<svars, cvars, mvars, rvars, uvars, pvars>>
    \/ HRecvWait /\ UNCHANGED <<svars, cvars, mvars, rvars, uvars, pvars>>
    \/ \E m \in HandlerTexts : StartWorkflow(m) /\ UNCHANGED <<svars, cvars, mvars, rvars, uvars, pvars>>
    \/ \E m \in HandlerTexts : HandleInterrupt(m) /\ UNCHANGED <<svars, cvars, mvars, rvars, uvars, pvars>>
    \/ \E m \in HandlerTexts : HandleUserResponse(m) /\ UNCHANGED <<svars, cvars, mvars, rvars, uvars, pvars>>
    \/ \E m \in HandlerTexts : ResumeWorkflow(m) /\ UNCHANGED <<svars, cvars, mvars, rvars, uvars, pvars>>
    \/ ResumeCreate /\ UNCHANGED <<svars, cvars, mvars, rvars, uvars, pvars>>
    \/ \E m \in HandlerTexts : DropMessage(m) /\ UNCHANGED <<svars, cvars, mvars, rvars, uvars, pvars>>
    \/ \E t \in TaskRunning : WStart(t) /\ UNCHANGED <<svars, cvars, mvars, rvars, uvars, pvars>>
    \/ \E t \in TaskRunning : WStep2(t) /\ UNCHANGED <<svars, cvars, mvars, rvars, uvars, pvars>>
    \/ \E t \in TaskRunning : WAsk(t) /\ UNCHANGED <<svars, cvars, mvars, rvars, uvars, pvars>>
    \/ \E t \in TaskRunning : WAwait(t) /\ UNCHANGED <<svars, cvars, mvars, rvars, uvars, pvars>>
    \/ \E t \in TaskRunning : WCancelled(t) /\ UNCHANGED <<svars, cvars, mvars, rvars, uvars, pvars>>
    \/ \E t \in TaskRunning : WReplyInterrupt(t) /\ UNCHANGED <<svars, cvars, mvars, rvars, uvars, pvars>>
    \/ \E t \in TaskRunning : WReplyModify(t) /\ UNCHANGED <<svars, cvars, mvars, rvars, uvars, pvars>>
    \/ \E t \in TaskRunning : WModWait(t) /\ UNCHANGED <<svars, cvars, mvars, rvars, uvars, pvars>>
    \/ \E t \in TaskRunning : WModDone(t) /\ UNCHANGED <<svars, cvars, mvars, rvars, uvars, pvars>>
    \/ \E t \in TaskRunning : WReplyChapter(t) /\ UNCHANGED <<svars, cvars, mvars, rvars, uvars, pvars>>
    \/ \E t \in TaskRunning : WChapter(t) /\ UNCHANGED <<svars, cvars, mvars, rvars, uvars, pvars>>
    \/ \E t \in TaskRunning : WChapterDone(t) /\ UNCHANGED <<svars, cvars, mvars, rvars, uvars, pvars>>
    \/ \E t \in TaskRunning : WReplyContinue(t) /\ UNCHANGED <<svars, cvars, mvars, rvars, uvars, pvars>>
    \/ \E t \in TaskRunning : WComplete(t) /\ UNCHANGED <<svars, cvars, mvars, rvars, uvars, pvars>>
    \/ \E t \in TaskRunning : WFinish(t) /\ UNCHANGED <<svars, cvars, mvars, rvars, uvars, pvars>>

\* ============== ConversationStore of the controller (conversation_store.py)
\* ConversationStore.create() has loaded a new conversation: no message,
\* and no interaction_mode attribute, which __init__ does not set
CtlInit ==
    /\ messages = <<>>
    /\ ctl = NewCtl
    /\ csink = <<>>
    /\ db = <<>>
    /\ recent = NoRecent

Roles == {"user", "assistant"}
Contents == {<<201>>, <<202>>}

\* the controller serves a conversation the other two programs do not
CtlAlone == turn[1].pc = "absent" /\ nmsgs = 0

\* add_message(role, content): the conversation is loaded, so the message
\* is appended to the list in memory before the first await; the saves
\* that follow leave the list alone
AddMessageFront(r, c) ==
    /\ CtlAlone
    /\ Len(messages) < MaxMessages
    /\ messages' = <<Msg(r, c)>> \o messages
AddMessage(r, c) ==
    /\ CtlAlone
    /\ Len(messages) < MaxMessages
    /\ messages' = Append(messages, Msg(r, c))

\* how the saves of add_message end. "saved": every statement succeeds.
\* "insert_failed": the INSERT and the UPDATE tried after it fail, which
\* save_message catches and prints. "raised_early", "raised_late": a
\* statement outside that try block fails (the count query before the
\* INSERT; a later count query, save_conversation_info or get_messages)
\* and add_message raises
SaveOutcomes == {"saved", "insert_failed", "raised_early", "raised_late"}
Raised(o) == o \in {"raised_early", "raised_late"}

\* add_message, after the append in memory: db.save_message, _save and
\* db.get_messages
SaveMessage(r, c, o) ==
    db' = IF o \in {"saved", "raised_late"} THEN Append(db, Msg(r, c))
          ELSE db

Min(a, b) == IF a <= b THEN a ELSE b
Max(a, b) == IF a >= b THEN a ELSE b

\* the Python slice s[start:]: a negative start counts from the end and
\* is clipped to the beginning, a start past the end gives the empty list
SliceFrom(s, start) ==
    LET lo == IF start < 0 THEN Max(Len(s) + start, 0)
              ELSE Min(start, Len(s))
    IN  SubSeq(s, lo + 1, Len(s))

\* get_recent_messages(count): messages[-count:] as role/content pairs
GetRecentMessages(count) ==
    IF messages = <<>> THEN <<>>
    ELSE LET r == SliceFrom(messages, 0 - count)
         IN  [k \in 1..Len(r) |->
                 [role |-> r[k].role, content |-> r[k].content]]

Counts == 0..MaxCount

\* a call of get_recent_messages(count)
Recent(count) ==
    /\ CtlAlone
    /\ recent' = [count |-> count, out |-> GetRecentMessages(count)]
    /\ UNCHANGED <<messages, ctl, csink, db>>

\* add_message and get_recent_messages called on a conversation whose loop
\* is not modelled
CtlNext ==
    \/ \E r \in Roles, c \in Contents, o \in SaveOutcomes :
        /\ ctl = NewCtl
        /\ AddMessage(r, c)
        /\ SaveMessage(r, c, o)
        /\ UNCHANGED <<svars, wvars, mvars, rvars, uvars, pvars, ctl, csink, recent>>
    \/ \E n \in Counts :
        /\ ctl = NewCtl
        /\ Recent(n)
        /\ UNCHANGED <<svars, wvars, mvars, rvars, uvars, pvars>>

\* ================= websocket_endpoint (websocket_controller.py)
CEv(ty, f) == [type |-> ty, frag |-> f]
CFrag(k) == 300 + k
\* send_error(code): the ERROR event and its code
ErrorEvent(code) == [type |-> "error", frag |-> 0, code |-> code]
\* the COMPLETE event and its full_content
CompleteEvent(full) == [type |-> "complete", frag |-> 0, full |-> full]

\* a MESSAGE event arrives on the websocket
CtlArrive ==
    /\ CtlAlone
    /\ ctl.recvd < MaxMessages
    /\ ctl' = [ctl EXCEPT !.inbox = @ + 1, !.recvd = @ + 1]
    /\ UNCHANGED <<messages, csink, db, recent>>

\* the plan of the conversation has been confirmed before the loop is
\* observed: interaction_mode is 'normal' (the exchanges of handle_start
\* and handle_feedback that lead there are not part of this model)
CtlConfirmed ==
    /\ CtlAlone
    /\ ctl.recvd = 0
    /\ ctl.mode = "unset"
    /\ ctl' = [ctl EXCEPT !.mode = "normal"]
    /\ UNCHANGED <<messages, csink, db, recent>>

\* handle_message without the return after the error: the empty message
\* is saved and acknowledged as well
CtlHandleEmptyFallThrough ==
    /\ ctl.pc = "recv"
    /\ ctl.inbox > 0
    /\ ctl' = [ctl EXCEPT !.inbox = @ - 1]
    /\ AddMessage("user", <<>>)
    /\ SaveMessage("user", <<>>, "saved")
    /\ csink' = csink \o <<ErrorEvent("EMPTY_MESSAGE"), CEv("sync", 0)>>
    /\ UNCHANGED recent

\* the loop takes the next event only between two handlers: receive_json,
\* then handle_message with an empty content, which is answered with an
\* error
CtlHandleEmpty ==
    /\ ctl.pc = "recv"
    /\ ctl.inbox > 0
    /\ ctl' = [ctl EXCEPT !.inbox = @ - 1]
    /\ csink' = Append(csink, ErrorEvent("EMPTY_MESSAGE"))
    /\ UNCHANGED <<messages, db, recent>>

\* receive_json, then handle_message(content): the user message is saved
\* and acknowledged; a save that raises, or reading an interaction_mode
\* that was never set (AttributeError), is answered with an error by the
\* except clause of handle_message; otherwise generate_normal_response
\* sends its first chunk ("thinking") and awaits the agent's stream
CtlHandle(c, o) ==
    /\ ctl.pc = "recv"
    /\ ctl.inbox > 0
    /\ AddMessage("user", c)
    /\ SaveMessage("user", c, o)
    /\ IF Raised(o)
       THEN /\ ctl' = [ctl EXCEPT !.inbox = @ - 1]
            /\ csink' = Append(csink, ErrorEvent("MESSAGE_ERROR"))
       ELSE IF ctl.mode = "unset"
       THEN /\ ctl' = [ctl EXCEPT !.inbox = @ - 1]
            /\ csink' = csink \o <<CEv("sync", 0), ErrorEvent("MESSAGE_ERROR")>>
       ELSE /\ ctl' = [ctl EXCEPT !.inbox = @ - 1, !.pc = "stream",
                                  !.full = <<>>]
            /\ csink' = csink \o <<CEv("sync", 0), CEv("chunk", 0)>>
    /\ UNCHANGED recent

\* generate_normal_response, a chunk of the stream: added to the local
\* full_response and sent
CtlChunk ==
    /\ ctl.pc = "stream"
    /\ Len(ctl.full) < MaxChunks
    /\ ctl' = [ctl EXCEPT !.full = Append(@, CFrag(Len(@) + 1))]
    /\ csink' = Append(csink, CEv("chunk", CFrag(Len(ctl.full) + 1)))
    /\ UNCHANGED <<messages, db, recent>>

\* generate_normal_response, the complete marker: the reply is saved and
\* the COMPLETE event sent; when add_message raises, the except clause
\* sends an error in its place. The stream and the handler end
CtlComplete(o) ==
    /\ ctl.pc = "stream"
    /\ AddMessage("assistant", ctl.full)
    /\ SaveMessage("assistant", ctl.full, o)
    /\ ctl' = [ctl EXCEPT !.pc = "recv", !.full = <<>>]
    /\ csink' = Append(csink, IF Raised(o) THEN ErrorEvent("GENERATE_ERROR")
                               ELSE CompleteEvent(ctl.full))
    /\ UNCHANGED recent

\* generate_normal_response, the stream raises: the except clause sends
\* an error and the handler ends; the local full_response is gone
CtlRaise ==
    /\ ctl.pc = "stream"
    /\ ctl' = [ctl EXCEPT !.pc = "recv", !.full = <<>>]
    /\ csink' = Append(csink, ErrorEvent("GENERATE_ERROR"))
    /\ UNCHANGED <<messages, db, recent>>

CtlLoopNext ==
    \/ CtlArrive /\ UNCHANGED <<svars, wvars, mvars, rvars, uvars, pvars>>
    \/ CtlConfirmed /\ UNCHANGED <<svars, wvars, mvars, rvars, uvars, pvars>>
    \/ CtlHandleEmpty /\ UNCHANGED <<svars, wvars, mvars, rvars, uvars, pvars>>
    \/ \E c \in Contents, o \in SaveOutcomes :
          CtlHandle(c, o) /\ UNCHANGED <<svars, wvars, mvars, rvars, uvars, pvars>>
    \/ CtlChunk /\ UNCHANGED <<svars, wvars, mvars, rvars, uvars, pvars>>
    \/ \E o \in SaveOutcomes : CtlComplete(o) /\ UNCHANGED <<svars, wvars, mvars, rvars, uvars, pvars>>
    \/ CtlRaise /\ UNCHANGED <<svars, wvars, mvars, rvars, uvars, pvars>>

\* ===================== SessionManager (store/session_manager.py)
\* after __init__: no connection, no list of cached messages
SmInit ==
    /\ active_connections = FALSE
    /\ has_pending = FALSE
    /\ pending_messages = <<>>
    /\ fl = [pc |-> "idle", i |-> 0, n |-> 0, out |-> <<>>]
    /\ wire = <<>>
    /\ nsent = 0
    /\ nconn = 0

\* the loop gives control to other coroutines while the flush is not
\* running or is suspended in a send
FlushAway == fl.pc \in {"idle", "sending"}

\* connect(thread_id, websocket): the connection is stored, the list of
\* cached messages created if absent, and the "connected" event sent with
\* send_message, which removes the connection again when the send fails
\* (load_full_conversation is no method of the store: the AttributeError
\* is caught and nothing more is sent)
SmConnect(ok) ==
    /\ FlushAway
    /\ nconn < MaxConnects
    /\ nconn' = nconn + 1
    /\ has_pending' = TRUE
    /\ active_connections' = ok
    /\ wire' = IF ok THEN Append(wire, 0) ELSE wire
    /\ UNCHANGED <<pending_messages, fl, nsent>>

\* disconnect(thread_id): the connection is removed
SmDisconnect ==
    /\ FlushAway
    /\ active_connections
    /\ active_connections' = FALSE
    /\ UNCHANGED <<has_pending, pending_messages, fl, wire, nsent, nconn>>

\* what send_message(thread_id, m) does to the connection, the cache and
\* the wire. Without a connection the message is appended to the cached
\* list (a KeyError when there is no list, caught: nothing happens); with
\* one it is sent, and a send that raises removes the connection
SendMessage(m, ok) ==
    IF ~active_connections
    THEN /\ pending_messages' = IF has_pending
                                THEN Append(pending_messages, m)
                                ELSE pending_messages
         /\ UNCHANGED <<active_connections, wire>>
    ELSE /\ wire' = IF ok THEN Append(wire, m) ELSE wire
         /\ active_connections' = ok
         /\ UNCHANGED pending_messages

\* what send_message returns: False without a connection (after caching,
\* or from the except clause after the KeyError), True after a send, False
\* from the except clause when the send raises
SendMessageResult(ok) == active_connections /\ ok

\* send_message called by the application, outside a flush
SmSendMessage(ok) ==
    /\ FlushAway
    /\ nsent < MaxCached
    /\ Len(pending_messages) < MaxPending
    /\ nsent' = nsent + 1
    /\ SendMessage(nsent + 1, ok)
    /\ UNCHANGED <<has_pending, fl, nconn>>

\* _flush_pending_messages(thread_id) is called: with no list or an empty
\* one it returns at once; otherwise the loop starts over the list object
\* that self.pending_messages[thread_id] names
SmFlushCall ==
    /\ fl.pc = "idle"
    /\ has_pending
    /\ pending_messages # <<>>
    /\ fl' = [pc |-> "loop", i |-> 1, n |-> Len(pending_messages),
              out |-> <<>>]
    /\ UNCHANGED <<active_connections, has_pending, pending_messages, wire,
                   nsent, nconn>>

\* one iteration of "for item in pending" without a connection:
\* send_message appends the message to the list the loop iterates over
\* and returns without suspending
SmFlushRecache ==
    /\ fl.pc = "loop"
    /\ fl.i <= Len(pending_messages)
    /\ ~active_connections
    /\ Len(pending_messages) < MaxPending
    /\ pending_messages' = Append(pending_messages, pending_messages[fl.i])
    /\ fl' = [fl EXCEPT !.i = @ + 1]
    /\ UNCHANGED <<active_connections, has_pending, wire, nsent, nconn>>

\* one iteration with a connection: send_message awaits send_json
SmFlushSend ==
    /\ fl.pc = "loop"
    /\ fl.i <= Len(pending_messages)
    /\ active_connections
    /\ fl' = [fl EXCEPT !.pc = "sending"]
    /\ UNCHANGED <<active_connections, has_pending, pending_messages, wire,
                   nsent, nconn>>

\* the send ends: the message is on the wire, or send_json raised and the
\* connection the dict holds now is removed
SmFlushSent(ok) ==
    /\ fl.pc = "sending"
    /\ wire' = IF ok THEN Append(wire, pending_messages[fl.i]) ELSE wire
    /\ active_connections' = (ok /\ active_connections)
    /\ fl' = [fl EXCEPT !.pc = "loop", !.i = @ + 1,
                        !.out = IF ok THEN Append(@, fl.i) ELSE @]
    /\ UNCHANGED <<has_pending, pending_messages, nsent, nconn>>

\* the list is exhausted: self.pending_messages[thread_id] = []
SmFlushEnd ==
    /\ fl.pc = "loop"
    /\ fl.i > Len(pending_messages)
    /\ pending_messages' = <<>>
    /\ fl' = [fl EXCEPT !.pc = "idle"]
    /\ UNCHANGED <<active_connections, has_pending, wire, nsent, nconn>>

SmNext ==
    \/ \E ok \in BOOLEAN : SmConnect(ok) /\ UNCHANGED <<svars, wvars, cvars, rvars, uvars, pvars>>
    \/ SmDisconnect /\ UNCHANGED <<svars, wvars, cvars, rvars, uvars, pvars>>
    \/ \E ok \in BOOLEAN : SmSendMessage(ok) /\ UNCHANGED <<svars, wvars, cvars, rvars, uvars, pvars>>
    \/ SmFlushCall /\ UNCHANGED <<svars, wvars, cvars, rvars, uvars, pvars>>
    \/ SmFlushRecache /\ UNCHANGED <<svars, wvars, cvars, rvars, uvars, pvars>>
    \/ SmFlushSend /\ UNCHANGED <<svars, wvars, cvars, rvars, uvars, pvars>>
    \/ \E ok \in BOOLEAN : SmFlushSent(ok) /\ UNCHANGED <<svars, wvars, cvars, rvars, uvars, pvars>>
    \/ SmFlushEnd /\ UNCHANGED <<svars, wvars, cvars, rvars, uvars, pvars>>

\* ============ the registry of conversations (websocket_controller.py)
Sockets == 1..MaxSockets

\* no conversation registered, no connection requested
RegInit ==
    /\ active_conversations = 0
    /\ sock = [s \in Sockets |-> [pc |-> "new", conv |-> 0]]
    /\ ninst = 0

\* remove_conversation(thread_id): the entry of the thread_id is deleted,
\* whichever connection registered it
RemoveConversation == active_conversations' = 0

\* websocket_endpoint calls get_or_create_conversation, which runs to its
\* first suspension: with no entry for the thread_id it constructs an
\* instance and awaits its load; with an entry it returns the registered
\* instance and the connection is served with it
GetOrCreateConversation(s) ==
    /\ sock[s].pc = "new"
    /\ IF active_conversations = 0
         THEN /\ ninst' = ninst + 1
              /\ sock' = [sock EXCEPT ![s] = [pc |-> "loading",
                                              conv |-> ninst + 1]]
         ELSE /\ ninst' = ninst
              /\ sock' = [sock EXCEPT ![s] = [pc |-> "open",
                                              conv |-> active_conversations]]
    /\ UNCHANGED active_conversations

\* the load ends: the instance is registered under the thread_id, over
\* whatever is there, and the connection is served with it; a load that
\* raises ends the endpoint in its except clause, which removes the entry
CreateReturn(s, ok) ==
    /\ sock[s].pc = "loading"
    /\ IF ok
         THEN /\ active_conversations' = sock[s].conv
              /\ sock' = [sock EXCEPT ![s].pc = "open"]
         ELSE /\ RemoveConversation
              /\ sock' = [sock EXCEPT ![s] = [pc |-> "closed", conv |-> 0]]
    /\ UNCHANGED ninst

\* the client of an open connection goes away, or a handler raises: the
\* except clauses of the endpoint remove the entry of the thread_id
WebsocketDisconnect(s) ==
    /\ sock[s].pc = "open"
    /\ RemoveConversation
    /\ sock' = [sock EXCEPT ![s] = [pc |-> "closed", conv |-> 0]]
    /\ UNCHANGED ninst

RegNext ==
    \/ \E s \in Sockets :
          GetOrCreateConversation(s) /\ UNCHANGED <<svars, wvars, cvars, mvars, uvars, pvars>>
    \/ \E s \in Sockets, ok \in BOOLEAN :
          CreateReturn(s, ok) /\ UNCHANGED <<svars, wvars, cvars, mvars, uvars, pvars>>
    \/ \E s \in Sockets :
          WebsocketDisconnect(s) /\ UNCHANGED <<svars, wvars, cvars, mvars, uvars, pvars>>

\* ===== the workflow with a client that only answers its questions (01.py)
\* the events of one type the websocket was given
WCount(ty) == Cardinality({k \in 1..Len(wsink) : wsink[k].type = ty})

\* the answers the script gives to a decision question
Answers == {"jixu", "zhongduan"}

\* the client opens the conversation with its request
UserStart ==
    /\ sent = <<>>
    /\ Arrive
    /\ sent' = <<"other">>

\* the client answers a question the websocket was given and it has not
\* answered yet, and sends nothing else
UserAnswer(a) ==
    /\ sent # <<>>
    /\ WCount("question") > Len(sent) - 1
    /\ Arrive
    /\ sent' = Append(sent, a)

\* the text of the message the handler takes next
HeldText == sent[Len(sent) - inbox + 1]

\* the client's steps
UserLive ==
    \/ UserStart /\ UNCHANGED <<svars, cvars, mvars, rvars, pvars>>
    \/ \E a \in Answers : UserAnswer(a) /\ UNCHANGED <<svars, cvars, mvars, rvars, pvars>>

\* the steps of the event loop, of websocket_handler and of the task that
\* such a client makes possible: process_message sees IDLE once and
\* AWAITING_USER afterwards, and no reply is "xiugai" or "xiugai1"
LoopLive ==
    \/ WDispatch /\ UNCHANGED <<svars, cvars, mvars, rvars, uvars, pvars>>
    \/ WSendSuspend /\ UNCHANGED <<svars, cvars, mvars, rvars, uvars, pvars>>
    \/ WIODone /\ UNCHANGED <<svars, cvars, mvars, rvars, uvars, pvars>>
    \/ HRecvWait /\ UNCHANGED <<svars, cvars, mvars, rvars, uvars, pvars>>
    \/ Takes("idle") /\ StartWorkflow(HeldText) /\ UNCHANGED <<svars, cvars, mvars, rvars, uvars, pvars>>
    \/ HandleUserResponse(HeldText) /\ UNCHANGED <<svars, cvars, mvars, rvars, uvars, pvars>>
    \/ \E t \in TaskRunning : WStart(t) /\ UNCHANGED <<svars, cvars, mvars, rvars, uvars, pvars>>
    \/ \E t \in TaskRunning : WStep2(t) /\ UNCHANGED <<svars, cvars, mvars, rvars, uvars, pvars>>
    \/ \E t \in TaskRunning : WAsk(t) /\ UNCHANGED <<svars, cvars, mvars, rvars, uvars, pvars>>
    \/ \E t \in TaskRunning : WAwait(t) /\ UNCHANGED <<svars, cvars, mvars, rvars, uvars, pvars>>
    \/ \E t \in TaskRunning : WReplyInterrupt(t) /\ UNCHANGED <<svars, cvars, mvars, rvars, uvars, pvars>>
    \/ \E t \in TaskRunning : WReplyContinue(t) /\ UNCHANGED <<svars, cvars, mvars, rvars, uvars, pvars>>
    \/ \E t \in TaskRunning : WComplete(t) /\ UNCHANGED <<svars, cvars, mvars, rvars, uvars, pvars>>
    \/ \E t \in TaskRunning : WFinish(t) /\ UNCHANGED <<svars, cvars, mvars, rvars, uvars, pvars>>

\* ============ the sections of a report (store/conversation_store.py)
SectionIds == 1..MaxSections

\* after generate_report_stream: the phase is PLANNING and the outline's
\* sections were added as drafts without content
ReportInit ==
    /\ phase = "planning"
    /\ sections = [i \in SectionIds |-> [status |-> "draft", content |-> <<>>]]

\* _write_section(section): the content is written, the phase becomes
\* REVIEWING_SECTION
WriteSection(secs, i) ==
    /\ sections' = [secs EXCEPT ![i].content = <<"written">>]
    /\ phase' = "reviewing_section"

\* the sections _write_next_section would write: drafts without content
Unwritten(secs) ==
    {i \in SectionIds : secs[i].status = "draft" /\ secs[i].content = <<>>}

\* _write_next_section(): the first draft without content is written; with
\* none left the phase becomes COMPLETED
WriteNextSection(secs) ==
    IF Unwritten(secs) # {}
    THEN WriteSection(secs, CHOOSE i \in Unwritten(secs) :
                                \A j \in Unwritten(secs) : i <= j)
    ELSE /\ sections' = secs
         /\ phase' = "completed"

\* approve_plan(): the phase becomes WRITING and the next section is
\* written
ApprovePlan == WriteNextSection(sections)

\* approve_section(section_id) of an existing section: it is confirmed
\* and the next section is written
ApproveSection(i) ==
    WriteNextSection([sections EXCEPT ![i].status = "confirmed"])

\* edit_section(section_id, instruction) of an existing section: the
\* instruction is appended to the content and the section awaits
\* confirmation; the phase is not touched
EditSection(i) ==
    /\ Len(sections[i].content) < MaxContent
    /\ sections' = [sections EXCEPT ![i].status = "pending",
                                    ![i].content = Append(@, "edited")]
    /\ UNCHANGED phase

\* regenerate_section(section_id) of an existing section: it becomes a
\* draft without content and is written again
RegenerateSection(i) ==
    WriteSection([sections EXCEPT ![i].status = "draft",
                                  ![i].content = <<>>], i)

ReportNext ==
    \/ ApprovePlan /\ UNCHANGED <<svars, wvars, cvars, mvars, rvars, uvars>>
    \/ \E i \in SectionIds :
          ApproveSection(i) /\ UNCHANGED <<svars, wvars, cvars, mvars, rvars, uvars>>
    \/ \E i \in SectionIds :
          EditSection(i) /\ UNCHANGED <<svars, wvars, cvars, mvars, rvars, uvars>>
    \/ \E i \in SectionIds :
          RegenerateSection(i) /\ UNCHANGED <<svars, wvars, cvars, mvars, rvars, uvars>>

\* ------------------------------------------------------ specifications
vars == <<svars, wvars, cvars, mvars, rvars, uvars, pvars>>
Init == StoreInit /\ WFInit /\ CtlInit /\ SmInit /\ RegInit /\ sent = <<>>
        /\ ReportInit
\* the conversation store
Next == StoreNext
Spec == Init /\ [][Next]_vars
\* the agent workflow
NextWF == WFNext
SpecWF == Init /\ [][NextWF]_vars
\* either program
NextAll == StoreNext \/ WFNext
SpecAll == Init /\ [][NextAll]_vars

\* the operations on a history: the store's, and add_message
NextHist == StoreNext \/ CtlNext
SpecHist == Init /\ [][NextHist]_vars

\* the programs that receive the client's messages: the endpoint of the
\* controller and the workflow's handler
NextInput == CtlLoopNext \/ WFNext
SpecInput == Init /\ [][NextInput]_vars

\* the session manager
NextFlush == SmNext
SpecFlush == Init /\ [][NextFlush]_vars

\* the connections of one thread_id
NextReg == RegNext
SpecReg == Init /\ [][NextReg]_vars

\* the workflow and a client that follows the script. The event loop runs
\* every callback that is ready, sends and sleeps end, and the client does
\* send its request and its answers
NextLive == UserLive \/ LoopLive
SpecLive == Init /\ [][NextLive]_vars /\ WF_vars(LoopLive) /\ WF_vars(UserLive)

\* the calls that approve, edit and rewrite the sections of a report
SpecReport == Init /\ [][ReportNext]_vars

\* both programs, the agent's stream failing at most MaxRaises times
NextErr == StoreErrNext \/ WFNext
SpecErr == Init /\ [][NextErr]_vars

\* ------------------------------------------------- claims on the store
\* the step in which turn i runs interupt_process()
Folds(i) == turn[i].pc = "int_true" /\ turn'[i].pc = "ip_sent"
\* the step in which turn i runs processing() and starts its task
Starts(i) == PastInterrupt(i) /\ turn'[i].pc = "proc_wait"

\* C1: at most one _generate_response task is in the running substate
\* (created, not finished, cancellation not requested) at any time.
RunningTasks == {t \in Turns : Live(t) /\ ~gen[t].mc}
C1_SingleFlight == Cardinality(RunningTasks) <= 1

\* C4: when a generation that appended fragments to the buffer is stopped
\* by interrupt_current_task() followed by interupt_process(), that call
\* appends exactly one assistant turn holding the fragments in order, and
\* leaves the buffer empty.
C4_NoLostPartial ==
    [][\A i \in Turns : Folds(i) =>
          /\ history' = Append(history,
                               Msg("assistant", emitted[turn[i].target]))
          /\ full_response' = <<>>]_vars

\* C5: when a turn with a new instruction interrupted a generation, its
\* processing() finds the old task's fragments as the last turn of the
\* history, an assistant turn, appends the user turn right after it, and
\* starts the new task on an empty buffer.
C5_FoldThenUser ==
    [][\A i \in Turns : (Starts(i) /\ turn[i].pc = "ip_sent") =>
          /\ history # <<>>
          /\ history[Len(history)] = Msg("assistant", emitted[turn[i].target])
          /\ history' = Append(history, Msg("user", UserText(i)))
          /\ full_response' = <<>>]_vars

\* the tasks are created in the order of the user turns in the history:
\* processing() appends the user turn and creates the task in one step
Pos(i) == CHOOSE k \in 1..Len(history) : history[k] = Msg("user", UserText(i))
CreatedBefore(t, u) ==
    gen[t].pc # "absent" /\ gen[u].pc # "absent" /\ Pos(t) < Pos(u)

\* the step sends the cancelled event of turn t's processing(): no task
\* created after t's has sent a chunk
CancelledBeforeNewChunks ==
    (/\ Len(sink') = Len(sink) + 1
     /\ sink'[Len(sink')].type = "cancelled") =>
        \A p \in 1..Len(sink) :
            sink[p].type = "chunk" =>
                ~CreatedBefore(sink'[Len(sink')].src, sink[p].src)

\* the step raises the CancelledError of a cancel() call in task t, whose
\* handler sends the interrupt message: no task created after t (tasks are
\* numbered as created) has sent an event
InterruptBeforeNewEvents ==
    \A t \in Tasks :
        (wt[t].mc /\ wt'[t].pc = "int_send" /\ wt[t].pc # "int_send") =>
            /\ wsink' = Append(wsink, WEv("interrupt", t))
            /\ \A p \in 1..Len(wsink) : wsink[p].src <= t

\* C7: the terminal event of a cancelled task (the cancelled event of
\* processing(), the interrupt message of execute_workflow's handler) is
\* never sent after an event of a task created after it.
C7_OldTerminalFirst ==
    [][CancelledBeforeNewChunks /\ InterruptBeforeNewEvents]_vars

\* a cancelled task's handler has sent its interrupt message and a task
\* created later has sent an event
C7_Witness ==
    \E p, q \in 1..Len(wsink) :
        /\ p < q
        /\ wsink[p].type = "interrupt"
        /\ wsink[p].src >= 1
        /\ wt[wsink[p].src].cr
        /\ wsink[q].src > wsink[p].src

\* the events processing() of turn i and its task have sent
ProcEvents(i) ==
    SelectSeq(sink, LAMBDA e : e.src = i /\ e.type # "interrupt")
Terminals == {"complete", "interrupt", "cancelled", "error"}
ChunkEvents(t) == [k \in 1..Len(emitted[t]) |-> Ev("chunk", t, emitted[t][k])]

\* C8: once processing() of a turn that started a generation has returned,
\* the events it sent are chunk events followed by exactly one terminal
\* event (complete, interrupt, cancelled or error).
C8_ChunksThenTerminal ==
    \A i \in Turns : (turn[i].pc = "done" /\ gen[i].pc # "absent") =>
        LET evs == ProcEvents(i) IN
        /\ Len(evs) >= 1
        /\ evs[Len(evs)].type \in Terminals
        /\ \A k \in 1..(Len(evs) - 1) : evs[k].type = "chunk"

\* C9: a single input to an idle conversation whose generation yields text
\* and completes normally has sent the chunk events and then a complete
\* event, and the history is the user turn and then one assistant turn
\* holding the whole text.
C9_IdleInputCompletes ==
    (/\ turn[1].pc = "done"
     /\ gen[1].res = "finished"
     /\ emitted[1] # <<>>
     /\ \A j \in Turns \ {1} : turn[j].pc = "absent") =>
        /\ sink = ChunkEvents(1) \o <<Ev("complete", 1, 0)>>
        /\ history = <<Msg("user", UserText(1)),
                       Msg("assistant", emitted[1])>>

\* ------------------------------------------- claims on the agent workflow
\* the execute_workflow tasks that were created and are not terminal
LiveTasks == {t \in Tasks : WLive(t)}

\* C2: at most one non-terminal execute_workflow task (running, or cancelled
\* and not yet drained) exists at any instant.
C2_OneLiveTask == Cardinality(LiveTasks) <= 1

\* the step sends an event of task u
Outputs(u) == /\ Len(wsink') = Len(wsink) + 1
              /\ wsink'[Len(wsink')].src = u

\* C6: once cancel() was called on an execute_workflow task, a task created
\* after it sends nothing before the cancelled task is terminal.
C6_DrainBeforeRestart ==
    [][\A t, u \in Tasks : (t < u /\ wt[t].cr /\ Outputs(u)) => ~WLive(t)]_vars

\* C10: a stop command ("zhongduan") taken while no task is active (the
\* state is IDLE) is answered with an interrupt message and creates no task.
C10_IdleStop ==
    [][(Takes("idle") /\ ProcessMessage("zhongduan")) =>
          /\ wt' = wt
          /\ wsink' = Append(wsink, WEv("interrupt", 0))]_vars

\* C3: the state is EXECUTING exactly when a non-terminal execute_workflow
\* task exists.
C3_ExecutingIffTask == (state = "executing") <=> (LiveTasks # {})

\* ------------------------------------ claims on a failing generation
\* the error events a task has sent
Errors(events, t) ==
    {p \in 1..Len(events) : events[p].type = "error" /\ events[p].src = t}

\* _generate_response: the step in which the except Exception clause is
\* entered sends the one error event of the task, and when the task ends
\* after it the handle does not name it
StoreErrorOnce ==
    \A t \in Turns :
        /\ (gen[t].pc = "pull" /\ gen'[t].pc = "err_send") =>
              /\ Errors(sink, t) = {}
              /\ sink' = Append(sink, Ev("error", t, 0))
        /\ (gen[t].pc = "err_send" /\ gen'[t].res # "none") =>
              /\ Cardinality(Errors(sink', t)) = 1
              /\ current_task' # t
        /\ gen[t].res # "none" => Errors(sink', t) = Errors(sink, t)

\* execute_workflow: the step in which the except Exception clause is
\* entered sends the one error event of the task and sets the state IDLE
WorkflowErrorOnce ==
    \A t \in Tasks :
        /\ (wt[t].pc # "err_send" /\ wt'[t].pc = "err_send") =>
              /\ Errors(wsink, t) = {}
              /\ wsink' = Append(wsink, WEv("error", t))
              /\ state' = "idle"
        /\ (wt[t].pc = "err_send" /\ wt'[t].res # "none") =>
              Cardinality(Errors(wsink', t)) = 1
        /\ wt[t].res # "none" => Errors(wsink', t) = Errors(wsink, t)

\* C11: a generation whose source raises mid-stream sends exactly one
\* error event for its turn, and the failure leaves the conversation
\* resumable: the store's handle does not name the task that has ended,
\* the workflow's state is IDLE (not EXECUTING with no task).
C11_ErrorLeavesIdle == [][StoreErrorOnce /\ WorkflowErrorOnce]_vars

\* a task has sent a chunk, its stream then raised, and the task has ended
C11_Witness ==
    \E t \in Turns :
        /\ gen[t].res = "finished"
        /\ emitted[t] # <<>>
        /\ Errors(sink, t) # {}
        /\ current_task = 0

\* the Assistant turns of the history that hold fragment f
AssistantTurnsWith(f) ==
    {p \in 1..Len(history) :
        /\ history[p].role = "assistant"
        /\ \E k \in 1..Len(history[p].content) : history[p].content[k] = f}
InBuffer(f) == \E k \in 1..Len(full_response) : full_response[k] = f
\* the task's stream raised and the task has ended
Failed(t) == gen[t].res # "none" /\ Errors(sink, t) # {}

\* C12: once a task whose stream raised after one or more chunks has
\* ended, each of its fragments is in exactly one Assistant turn of the
\* history and none is left in the buffer.
C12_ErrorFoldsPartial ==
    \A t \in Turns :
        Failed(t) =>
            \A k \in 1..Len(emitted[t]) :
                /\ Cardinality(AssistantTurnsWith(emitted[t][k])) = 1
                /\ ~InBuffer(emitted[t][k])

\* ------------------------------------------ claims on buffer and history
\* the places of the history's Assistant turns, and of the buffer, that
\* hold fragment f
FoldedAt(f) ==
    {pk \in (1..Len(history)) \X (1..MaxChunks) :
        /\ history[pk[1]].role = "assistant"
        /\ pk[2] <= Len(history[pk[1]].content)
        /\ history[pk[1]].content[pk[2]] = f}
BufferedAt(f) == {k \in 1..Len(full_response) : full_response[k] = f}

\* C13: every fragment a task has appended to the buffer is at one place
\* at most, of the buffer or of one Assistant turn of the history: none is
\* folded twice.
C13_NoDuplication ==
    \A t \in Turns : \A k \in 1..Len(emitted[t]) :
        Cardinality(FoldedAt(emitted[t][k])) +
        Cardinality(BufferedAt(emitted[t][k])) <= 1

\* an interruption has folded a fragment and a later generation has
\* folded its reply as well
C13_Witness ==
    \E t \in Turns, p, q \in 1..Len(history) :
        /\ emitted[t] # <<>>
        /\ <<p, 1>> \in FoldedAt(emitted[t][1])
        /\ p < q
        /\ history[q].role = "assistant"

\* a turn is inside interrupt_current_task() or about to run
\* interupt_process()
Interrupting ==
    \E i \in Turns : turn[i].pc \in {"int_wait", "int_timeout", "int_true"}

\* C14: the buffer is non-empty only while a task is live or an
\* interruption is being handled.
C14_BufferOnlyWhileActive ==
    (~Interrupting /\ \A t \in Turns : ~Live(t)) => full_response = <<>>

IsPrefix(s, t) == Len(s) <= Len(t) /\ SubSeq(t, 1, Len(s)) = s

\* C15: the history is append-only: in every step of processing(),
\* _generate_response(), interupt_process() and add_message() the history
\* before the step is a prefix of the history after it.
C15_AppendOnly ==
    [][IsPrefix(history, history') /\ IsPrefix(messages, messages')]_vars

\* the history holds a user turn, the fold of an interruption and a
\* further user turn
C15_Witness ==
    /\ Len(history) >= 3
    /\ history[1].role = "user"
    /\ history[2].role = "assistant"
    /\ history[2].content # <<>>
    /\ history[3].role = "user"

\* ------------------------------------ claims on the workflow's messages
\* process_message takes a message in state st in this step
Handles(st) == Takes(st) /\ inbox' = inbox - 1
\* asyncio.create_task is called in this step
Creates == \E t \in Tasks : wt[t].pc = "absent" /\ wt'[t].pc = "new"
\* Task.cancel() is called on an unfinished task in this step
Cancels == \E t \in Tasks : ~wt[t].cr /\ wt'[t].cr

\* C16: a message that process_message handles in state COMPLETED or
\* INTERRUPTED moves the state to EXECUTING and starts a task (in
\* resume_workflow, after the send of the status message).
C16_NotSinks ==
    [][(Handles("completed") \/ Handles("interrupted")) =>
          /\ state' = "executing"
          /\ Creates \/ hd'.pc = "resume"]_vars

\* C17: a message that process_message handles in state AWAITING_USER
\* resolves the pending future with the message's text and wakes the task
\* suspended on it, starts no task, cancels none and moves the state to
\* EXECUTING.
C17_ReplyResolves ==
    [][Handles("awaiting_user") =>
          /\ pending_future # 0
          /\ fstat[pending_future] = "pending"
          /\ fstat'[pending_future] = "set"
          /\ Awaiting(pending_future) # {}
          /\ fres'[pending_future] \in Texts
          /\ \A t \in Awaiting(pending_future) : WCo(t) \in
                 {wready'[k] : k \in 1..Len(wready')}
          /\ ~Creates
          /\ ~Cancels
          /\ state' = "executing"]_vars

\* ------------------------------------------- claims on the drain wait
\* the drain wait of a turn has timed out on task t
TimedOut(t) ==
    \E i \in Turns : turn[i].pc = "int_timeout" /\ turn[i].target = t
NewEvents == {p \in 1..Len(sink') : p > Len(sink)}

C19_InputDuringStream ==
    [][(ctl.pc = "stream" /\ ctl.inbox > 0) => ctl'.pc = "stream"]_vars

\* ------------------------------------------ claims on a stray reply
\* the options of a decision that are no command elsewhere ("xiugai"
\* modify, "xiugai1" modify chapter one)
ReplyTexts == {"xiugai", "xiugai1"}
\* a question was answered before, and no decision is pending now
NoDecisionPending ==
    /\ \E f \in Futs : fstat[f] = "set"
    /\ pending_future = 0 \/ fstat[pending_future] # "pending"

\* C20: when process_message handles the reply to a decision while no
\* decision is pending, it sends an error event, leaves the state as it
\* is, starts no task and cancels none.
C20_StrayReplyIsError ==
    [][\A m \in ReplyTexts :
          (ProcessMessage(m) /\ NoDecisionPending) =>
              /\ wsink' = Append(wsink, WEv("error", 0))
              /\ state' = state
              /\ ~Creates
              /\ ~Cancels]_vars

\* --------------------------------------- claims on the controller's store
\* C21: when a save of add_message fails while generate_normal_response
\* saves the finished reply, the Assistant turn is still appended to the
\* messages in memory and the complete event of the generation is still
\* sent.
C21_SaveFailureNotFatal ==
    [][\A o \in SaveOutcomes \ {"saved"} :
          CtlComplete(o) =>
              /\ messages' = Append(messages, Msg("assistant", ctl.full))
              /\ csink' = Append(csink, CompleteEvent(ctl.full))]_vars

\* the last k elements of s
LastN(s, k) == SubSeq(s, Len(s) - k + 1, Len(s))

\* C22: get_recent_messages(n) returns the last min(n, number of messages)
\* messages, in the order they were added, for every n >= 0 (n = 0
\* included), and leaves the messages unchanged.
C22_RecentIsLastN ==
    [][\A n \in Counts :
          Recent(n) =>
              /\ recent'.out = LastN(messages, Min(n, Len(messages)))
              /\ messages' = messages]_vars

\* ------------------------------------------- claims on the task handle
\* the store: processing() creates its task while the handle is None; the
\* handle becomes None in a step of the task it names only
StoreHandleDiscipline ==
    /\ \A i \in Turns : Starts(i) => current_task = 0
    /\ (current_task # 0 /\ current_task' = 0) => cur = GCo(current_task)

\* the workflow: start_workflow() and resume_workflow() create their task
\* while the handle is None, and the handle they replace never names an
\* unfinished task
WorkflowHandleDiscipline ==
    Creates => (ctx_task = 0 /\ \A t \in Tasks : ~WLive(t))

\* C23: a task is created only while the stored handle is None, the handle
\* is set to None only by the cleanup of the task it names, and no
\* submitter (processing, start_workflow, resume_workflow) replaces a
\* handle that names an unfinished task.
C23_HandleDiscipline ==
    [][StoreHandleDiscipline /\ WorkflowHandleDiscipline]_vars

\* ------------------------------------- claims on the cancellation signal
\* a turn has set the cancel signal for task t and is waiting for the task
Signalled(t) ==
    \E i \in Turns : /\ turn[i].pc \in {"int_wait", "int_timeout"}
                     /\ turn[i].target = t

\* a task the signal was set for appends no fragment and sends no chunk
SilentOnceSignalled ==
    \A t \in Turns :
        Signalled(t) =>
            /\ emitted'[t] = emitted[t]
            /\ \A p \in NewEvents :
                  ~(sink'[p].type = "chunk" /\ sink'[p].src = t)

\* when interupt_process() runs for an interrupted task, the buffer holds
\* every fragment the task appended
FoldFindsFragments ==
    \A i \in Turns :
        Folds(i) =>
            \A k \in 1..Len(emitted[turn[i].target]) :
                InBuffer(emitted[turn[i].target][k])

\* C24: once the cancel signal is set for a task, the task sends no
\* further chunk and appends no further fragment to the buffer, and every
\* fragment it appended before is still in the buffer when
\* interupt_process() runs.
C24_SignalStopsEmission ==
    [][SilentOnceSignalled /\ FoldFindsFragments]_vars

\* ------------------------------------ claims on interrupt_current_task()
\* turn i calls interrupt_current_task() in this step
CallsInterrupt(i) == turn[i].pc = "start" /\ turn'[i].pc # "start"
\* interrupt_current_task() of turn i returns True in this step
ReturnsTrue(i) ==
    turn[i].pc \in {"int_wait", "int_timeout"} /\ turn'[i].pc = "int_true"
Awaits(i, t) == \E k \in 1..Len(joiners'[t]) : joiners'[t][k] = i

\* C25: interrupt_current_task() returns True exactly when the handle
\* named an unfinished task at the call: it then sets the cancel signal,
\* requests the cancellation and waits for the task, and when it returns
\* the task has ended, the handle is None and the signal is cleared.
\* Otherwise it returns False and leaves the handle, the signal, the
\* buffer and the history as they were.
C25_InterruptContract ==
    [][\A i \in Turns :
          /\ (CallsInterrupt(i) /\ current_task # 0 /\ Live(current_task)) =>
                /\ cancel_event'
                /\ gen'[current_task].mc
                /\ turn'[i].pc = "int_wait"
                /\ turn'[i].target = current_task
                /\ Awaits(i, current_task)
                /\ UNCHANGED <<current_task, full_response, history>>
          /\ (CallsInterrupt(i) /\ ~(current_task # 0 /\ Live(current_task))) =>
                /\ turn'[i].pc = "int_false"
                /\ UNCHANGED <<current_task, cancel_event, full_response,
                               history, gen>>
          /\ ReturnsTrue(i) =>
                /\ TaskDone(turn[i].target)
                /\ current_task' = 0
                /\ ~cancel_event'
                /\ UNCHANGED <<full_response, history>>
          /\ (turn[i].pc # "int_true" /\ turn'[i].pc = "int_true") =>
                ReturnsTrue(i)]_vars

\* interrupt_current_task() has returned True for a task that had sent a
\* chunk and was cancelled
C25_Witness ==
    \E i \in Turns :
        /\ turn[i].pc = "int_true"
        /\ gen[turn[i].target].res = "cancelled"
        /\ emitted[turn[i].target] # <<>>
        /\ current_task = 0
        /\ ~cancel_event

\* ------------------------------------------ claims on the interrupt event
\* the interrupt events of a sequence of events
Interrupts(events) == {p \in 1..Len(events) : events[p].type = "interrupt"}

\* the store: the second of two turns has interrupted the generation of
\* the first, which was cancelled, and both turns are over
StoreInterruptedOnce ==
    /\ \A j \in Turns : j > 2 => turn[j].pc = "absent"
    /\ turn[1].pc = "done"
    /\ turn[2].pc = "done"
    /\ gen[1].res = "cancelled"

\* the workflow: the second of two messages has interrupted the running
\* task of the first (cancel() was called on it), the task has ended and
\* the handler waits for the next message
WorkflowInterruptedOnce ==
    /\ nmsgs = 2
    /\ inbox = 0
    /\ hd.wait = "recv"
    /\ wt[1].cr
    /\ ~WLive(1)

\* C26: the interruption of a running generation sends exactly one
\* interrupt event to the client and leaves the phase INTERRUPTED.
C26_OneInterruptEvent ==
    /\ StoreInterruptedOnce => Cardinality(Interrupts(sink)) = 1
    /\ WorkflowInterruptedOnce =>
          /\ Cardinality(Interrupts(wsink)) = 1
          /\ state = "interrupted"

\* ------------------------------------- claims on the wait for a decision
\* task t is suspended in "await self.pending_future"
Suspended(t) == WLive(t) /\ wt[t].wait = "fut"

\* C27: whenever an execute_workflow task is suspended on a decision
\* future, the state is AWAITING_USER and pending_future is that future,
\* unresolved, so that the next message process_message takes resolves it:
\* no task is suspended on a future no message can resolve.
C27_SuspensionResolvable ==
    \A t \in Tasks :
        Suspended(t) =>
            /\ state = "awaiting_user"
            /\ pending_future = wt[t].fw
            /\ fstat[wt[t].fw] = "pending"
            /\ t \in {fwaiters[wt[t].fw][k] : k \in 1..Len(fwaiters[wt[t].fw])}

\* ------------------------------------------ claims on the cached messages
\* C28: _flush_pending_messages ends after one pass over the messages
\* that were cached when it was called (the loop runs no iteration beyond
\* them), it has sent each of them at most once and in the order they
\* were cached, and it leaves the list of cached messages empty; also when
\* the connection is missing or a send fails during the flush.
C28_FlushOnce ==
    [][/\ fl'.pc # "idle" => fl'.i <= fl'.n + 1
       /\ \A p, q \in 1..Len(fl'.out) : p < q => fl'.out[p] < fl'.out[q]
       /\ \A p \in 1..Len(fl'.out) : fl'.out[p] <= fl'.n
       /\ (fl.pc = "loop" /\ fl'.pc = "idle") => pending_messages' = <<>>]_vars

\* ---------------------------------------- claims on the task's cleanup
\* task t ends in this step
Ends(t) == gen[t].res = "none" /\ gen'[t].res # "none"

\* C29: the step in which a _generate_response task ends (normally, after
\* an error or cancelled) sets the handle to None only when the handle
\* names that task: a superseded task that ends late leaves the handle of
\* a newer task as it is. A task that ends inside the coroutine and is
\* named by the handle does clear it.
C29_CleanupOwnHandle ==
    [][\A t \in Turns :
          Ends(t) =>
              /\ current_task # t => current_task' = current_task
              /\ (current_task = t /\ gen[t].pc # "new") => current_task' = 0]_vars

\* a superseded task is running its last step (its cancellation is due,
\* or it has the complete marker in hand) while the handle names another,
\* unfinished task
C29_Witness ==
    \E t, u \in Turns :
        /\ t # u
        /\ cur = GCo(t)
        /\ gen[t].pc = "pull"
        /\ gen[t].mc \/ gen[t].item = "complete"
        /\ current_task = u
        /\ Live(u)

\* C30: all open connections of one thread_id are served with the same
\* ConversationStore instance: no two open connections hold distinct
\* instances, under any interleaving of connects and disconnects
Open(s) == sock[s].pc = "open"
C30_OneLiveInstance ==
    \A s, u \in Sockets :
        (Open(s) /\ Open(u)) => sock[s].conv = sock[u].conv

\* C31: with a client that sends its request, answers "jixu" to every
\* question of execute_workflow and sends nothing else, the workflow ends
\* in COMPLETED with exactly one complete event; once the client has
\* answered "zhongduan" to a question, the task ends and the state becomes
\* INTERRUPTED
SaidInterrupt == \E k \in 1..Len(sent) : sent[k] = "zhongduan"
NoTaskLeft == \A t \in Tasks : ~WLive(t)
CompletedOnce == state = "completed" /\ WCount("complete") = 1
C31_ContinueCompletes == <>(SaidInterrupt \/ [](CompletedOnce /\ NoTaskLeft))
C31_InterruptEnds ==
    SaidInterrupt ~> [](state = "interrupted" /\ NoTaskLeft /\ ctx_task # 0)
C31_DecisionsDecide == C31_ContinueCompletes /\ C31_InterruptEnds

\* the texts of the CHUNK events at the end of s, in order: the events
\* of the generation that is running, which the handler sends after the
\* acknowledgment and with one message_id
RECURSIVE TrailingChunks(_)
TrailingChunks(s) ==
    IF s = <<>> \/ s[Len(s)].type # "chunk" THEN <<>>
    ELSE Append(TrailingChunks(SubSeq(s, 1, Len(s) - 1)), s[Len(s)].frag)

\* C32: when a generation of generate_normal_response completes, the
\* full_content of its COMPLETE event and the content of the saved
\* Assistant message are the concatenation, in order, of the texts of all
\* the CHUNK events sent with the message_id of the generation
C32_CompleteIsChunks ==
    [][\A o \in SaveOutcomes :
          (CtlComplete(o) /\ ~Raised(o)) =>
              /\ csink'[Len(csink')].full = TrailingChunks(csink)
              /\ messages'[Len(messages')].content = TrailingChunks(csink)]_vars

\* the same without the first CHUNK event of the generation, the
\* "thinking" notice
C32_CompleteIsAgentChunks ==
    [][\A o \in SaveOutcomes :
          (CtlComplete(o) /\ ~Raised(o)) =>
              /\ csink'[Len(csink')].full = Tail(TrailingChunks(csink))
              /\ messages'[Len(messages')].content
                     = Tail(TrailingChunks(csink))]_vars

\* C33: send_message for a thread_id without a connection sends nothing,
\* appends the message to the list of cached messages of the thread and
\* returns False, also for a thread_id that has never connected
C33_CachedWhenNoConnection ==
    [][\A ok \in BOOLEAN :
          (SmSendMessage(ok) /\ ~active_connections) =>
              /\ wire' = wire
              /\ pending_messages' = Append(pending_messages, nsent + 1)
              /\ ~SendMessageResult(ok)]_vars

\* the same for a thread_id that has connected before
C33_CachedAfterConnect ==
    [][\A ok \in BOOLEAN :
          (SmSendMessage(ok) /\ ~active_connections /\ has_pending) =>
              /\ wire' = wire
              /\ pending_messages' = Append(pending_messages, nsent + 1)
              /\ ~SendMessageResult(ok)]_vars

\* what holds in every case: nothing is sent and False is returned
C33_NothingSent ==
    [][\A ok \in BOOLEAN :
          (SmSendMessage(ok) /\ ~active_connections) =>
              wire' = wire /\ ~SendMessageResult(ok)]_vars

\* C34: after any sequence of approve_plan, approve_section, edit_section
\* and regenerate_section the phase is COMPLETED only if every section has
\* a content and is confirmed
Finished(i) == sections[i].content # <<>> /\ sections[i].status = "confirmed"
C34_CompletedMeansConfirmed ==
    phase = "completed" => \A i \in SectionIds : Finished(i)

====
